---- MODULE Spec2Model ----
(***************************************************************************)
(* Inbox Scout: the Adaptive Voice Memory Engine.                          *)
(*                                                                         *)
(* The model follows MemoryClient (packages/memory-pinecone, the client    *)
(* the agent service imports) and PineconeMemoryClient (the older client). *)
(* Async functions are split at their await points: one action per        *)
(* resumption.  The embedding provider and the vector store are the        *)
(* environment: every call to them may succeed or fail.                    *)
(***************************************************************************)
EXTENDS Integers, Sequences, FiniteSets, TLC

(***************************************************************************)
(* Bounds of the model.                                                    *)
(***************************************************************************)
\* longest corpus handed to an ingestion
MaxPosts == 5
\* failed provider / store calls in one ingestion
MaxIngestFailures == 3
\* failed provider / store calls in one behaviour of any other operation
MaxFailures == 6
\* conversations of the contact that the store may hold
MaxConversations == 3
\* milliseconds by which timers and network calls may run late, in total
MaxDrift == 1
\* messages that arrive in the mailbox
MaxMessages == 1
\* cron ticks and POST /process-emails requests in one behaviour
MaxTriggers == 2
\* failed mail, CRM, AI and memory calls in one behaviour of the agent
MaxAgentFailures == 1
\* longest draft or sent text of an edit, in words
MaxWords == 2
\* storeConversation calls in one behaviour
MaxStores == 2
\* how often a keyword occurs in a corpus
MaxOccurrences == 3
\* starts of the agent's process
MaxStarts == 2

VARIABLES
    op,             \* the operation this behaviour exercises
    \* ---- environment
    now,            \* Date.now(), in milliseconds
    drift,          \* lateness used so far (bounded by MaxDrift)
    failures,       \* failed external calls so far (bounded by MaxFailures)
    inflight,       \* the embedding requests the provider is working on
    voice,          \* the 'voice' namespace: a set of records, one per id
    \* ---- MemoryClient.generateEmbedding
    gePc,           \* "idle" | "awaitCreate" | "sleep" | "returned" | "thrown"
    geText,         \* the text argument
    retryCount,     \* the local retryCount
    geWait,         \* the waitTime of the pending setTimeout
    geResult,       \* what the call returned or threw
    geLog,          \* the provider requests, failures and waits of this call
    \* ---- MemoryClient.storeVoicePattern
    svpPc,          \* "idle" | "embedding" | "upsert" | "returned" | "thrown"
    svpPattern,     \* the VoicePattern argument
    svpRecord,      \* the record handed to upsert
    svpError,       \* the error rethrown
    \* ---- MemoryClient.ingestLinkedInContent
    ingPc,          \* "idle" | "storing" | "delay100" | "delay500" | "done" | "thrown"
    posts,          \* the posts argument (their texts)
    i,              \* the loop index (0-based, as in the code)
    successCount,
    errorCount,
    ingError,       \* the error the call ended with
    ingRuns,        \* how many times ingestLinkedInContent has been called
    \* ---- MemoryClient.learnFromEdit
    lePc,           \* "idle" | "storing" | "returned" | "thrown"
    draftText,      \* the arguments draftText and sentText: their words
    sentText,
    lePatterns,     \* the local patterns
    leK,            \* the pattern the loop is at (0-based)
    leError,        \* the error rethrown
    \* ---- MemoryClient.storeConversation
    scPc,           \* "idle" | "embedding" | "upsert" | "returned" | "thrown"
    scContext,      \* the argument context
    scRecord,       \* the record handed to upsert
    scCalls,        \* how many times storeConversation has been called
    scDone,         \* the contexts of the calls that returned, in order
    \* ---- SentMonitorService.analyzeStyleChanges
    styPc,          \* "idle" | "done"
    original,       \* the arguments original and edited: the mails they render
    edited,
    styleChanges,   \* the argument styleChanges, pushed to
    \* ---- LinkedInIngester.analyzeTone
    tonePc,         \* "idle" | "done"
    allText,        \* the argument text: how often it holds each keyword
    toneSliders,    \* the value returned
    \* ---- InboxScoutAgent.initializeLinkedInData, over the starts of the process
    startPc,        \* "down" | "checking" | "noData" | "skipped" | "ingested" | "aborted"
    starts,         \* how often the process has started
    startLog,       \* what initializeLinkedInData did at each start
    \* ---- MCPOutlookClient / OutlookGraphClient: the access token
    tokPc,          \* "idle" | "acquiring"
    minute,         \* Date.now(), in minutes since the epoch
    accessToken,    \* this.accessToken: NoToken (null) or the token held
    tokenExpiry,    \* this.tokenExpiry, in minutes
    expiresOn,      \* when the held token really expires, as the response gave it
    acquired,       \* how many tokens the authority has issued
    tokResult,      \* what the last getAccessToken gave
    \* ---- the 'conversations' namespace and the queries of an assembly
    conversations,  \* a set of records, one per id
    queries,        \* per query of the operation: "notStarted" | "pending" | "ok" | "failed"
    \* ---- getConversationHistory / searchRelevantContext / getVoicePatterns
    srPc,           \* "idle" | "embedding" | "query" | "returned" | "thrown"
    srFn,           \* which of the three runs: "history" | "relevant" | "patterns"
    srQuery,        \* the query it sends: namespace, topK, filter
    srResult,       \* the SearchResult[] it returns
    \* ---- MemoryClient.buildContextForDraft
    bcPc,           \* "idle" | "history" | "relevant" | "returned" | "thrown"
    contactEmail,
    currentEmailBody,
    history,
    relevantContext,
    context,        \* the string returned
    \* ---- MemoryClient.getVoiceGuidance
    gvPc,           \* "idle" | "liEmbedding" | "liQuery" | "patterns" | "returned" | "thrown"
    emailContext,
    relevantLinkedInContent,
    patterns,
    guidance,       \* the string returned
    \* ---- PineconeMemoryClient.indexVoice
    ivPc,           \* "idle" | "embedding" | "upsert" | "returned" | "thrown"
    items,          \* the items argument
    vectors,        \* per item: the vector built for it, once its embedding arrived
    ivError,
    \* ---- InboxScoutAgent
    memoryClient,   \* TRUE: a MemoryClient is configured; FALSE: this.memoryClient is null
    isProcessing,
    aiFilterCache,  \* the Map, as its entries in insertion order
    handlers,       \* the cron ticks and POST /process-emails requests so far, each
                    \* with the locals of its processUnreadEmails / processMessage
    \* ---- the mailbox and the CRM
    arrived,        \* how many messages have arrived
    unread,         \* the ids of the unread messages
    mailWrites,     \* the writes made through the mail client
    crm             \* the records written to the CRM

envVars == <<now, drift, failures, inflight, voice>>
geVars  == <<gePc, geText, retryCount, geWait, geResult, geLog>>
svpVars == <<svpPc, svpPattern, svpRecord, svpError>>
ingVars == <<ingPc, posts, i, successCount, errorCount, ingError, ingRuns>>
leVars  == <<lePc, draftText, sentText, lePatterns, leK, leError>>
scVars  == <<scPc, scContext, scRecord, scCalls, scDone>>
styVars == <<styPc, original, edited, styleChanges>>
toneVars == <<tonePc, allText, toneSliders>>
startVars == <<startPc, starts, startLog>>
\* the operations that stand beside the memory client's ingestion and the agent
tokVars == <<tokPc, minute, accessToken, tokenExpiry, expiresOn, acquired, tokResult>>
restVars == <<scVars, styVars, toneVars, startVars, tokVars>>
srVars  == <<srPc, srFn, srQuery, srResult>>
bcVars  == <<bcPc, contactEmail, currentEmailBody, history, relevantContext, context>>
gvVars  == <<gvPc, emailContext, relevantLinkedInContent, patterns, guidance>>
ivVars  == <<ivPc, items, vectors, ivError>>
agentVars == <<memoryClient, isProcessing, aiFilterCache, handlers,
               arrived, unread, mailWrites, crm>>
\* the context assembly, and what is not MemoryClient's ingestion
asmVars == <<conversations, queries, srVars, bcVars, gvVars>>
offIngest == <<asmVars, ivVars>>
\* the memory client, its callers and the agent
coreVars == <<op, envVars, geVars, svpVars, ingVars, leVars, asmVars, ivVars, agentVars>>
\* everything but the environment and generateEmbedding's locals
callerVars == <<op, svpVars, ingVars, leVars, asmVars, ivVars, agentVars, restVars>>
vars    == <<op, envVars, geVars, svpVars, ingVars, leVars, asmVars, ivVars, agentVars, restVars>>

(***************************************************************************)
(* Values.                                                                 *)
(***************************************************************************)
\* A text is known by an identity and its length; the empty string is
\* the only text of length 0.
Text(id, len) == [id |-> id, len |-> len]
EmptyText == Text(0, 0)

\* An error as the handlers look at it: error.code and error.status.
Error(code, status) == [code |-> code, status |-> status]
NoError == Error("", 0)
\* OpenAI: billing quota exhausted / a server error
QuotaExceeded == Error("insufficient_quota", 429)
TransientFailure == Error("server_error", 500)
ProviderErrors == {QuotaExceeded, TransientFailure}
\* Pinecone: the service is down / it throttles the caller
StoreUnavailable == Error("unavailable", 503)
StoreThrottled == Error("", 429)
StoreErrors == {StoreUnavailable, StoreThrottled}

\* The vector the provider computes for a text is known by that text.
Embedding(text) == [of |-> text]
NoText == Text(-1, 0)
Returned(text) == [ok |-> TRUE, embedding |-> Embedding(text), error |-> NoError]
Thrown(err) == [ok |-> FALSE, embedding |-> Embedding(NoText), error |-> err]
NoResult == Thrown(NoError)

Min(a, b) == IF a < b THEN a ELSE b

RECURSIVE Pow2(_)
Pow2(n) == IF n = 0 THEN 1 ELSE 2 * Pow2(n - 1)

(***************************************************************************)
(* Time.  A timer of ms milliseconds fires no earlier than ms later; a     *)
(* network call takes 0 ms or more.                                        *)
(***************************************************************************)
Elapse(ms) ==
    \E d \in 0..(MaxDrift - drift) :
        /\ now' = now + ms + d
        /\ drift' = drift + d

\* the failed calls a behaviour may see
FailureBudget ==
    IF op \in {"ingest", "learn", "reingest", "store", "startup"} THEN MaxIngestFailures
    ELSE IF op \in {"agent", "filter"} THEN MaxAgentFailures
    ELSE MaxFailures

(***************************************************************************)
(* MemoryClient.generateEmbedding                                          *)
(***************************************************************************)
maxRetries == 3

IsQuotaError(error) == error.code = "insufficient_quota" \/ error.status = 429

QuotaWaitTimeNoDoubling(n) == 60 * 1000
QuotaWaitTime(n) == Pow2(n) * 60 * 1000

OtherWaitTimeFixed(n) == 1000
OtherWaitTime(n) == (n + 1) * 1000

\* retryCount < maxRetries - 1: another attempt is left
CanRetryOneMore(n) == n < maxRetries
CanRetry(n) == n < maxRetries - 1

\* a request to the provider: who awaits it, and its input
EmbeddingRequest(who, text) == [who |-> who, text |-> text]

\* this.openai.embeddings.create({input: text}): the request leaves
CreateEmbedding(text, log) ==
    /\ inflight' = inflight \cup {EmbeddingRequest(0, text)}
    /\ geLog' = Append(log, [ev |-> "request", at |-> now, ms |-> 0, error |-> NoError])

\* the call itself: retryCount = 0 and the first pass through the loop
GenerateEmbedding(text) ==
    /\ gePc = "idle"
    /\ gePc' = "awaitCreate"
    /\ geText' = text
    /\ retryCount' = 0
    /\ geWait' = 0
    /\ geResult' = NoResult
    /\ CreateEmbedding(text, <<>>)

\* the provider answers with the embedding: return response.data[0].embedding
GeCreateOk ==
    /\ gePc = "awaitCreate"
    /\ inflight' = inflight \ {EmbeddingRequest(0, geText)}
    /\ Elapse(0)
    /\ gePc' = "returned"
    /\ geResult' = Returned(geText)
    /\ geLog' = Append(geLog, [ev |-> "ok", at |-> now', ms |-> 0, error |-> NoError])
    /\ UNCHANGED <<failures, voice, geText, retryCount, geWait, callerVars>>

\* the provider call throws: the catch block
GeCreateError(error) ==
    /\ gePc = "awaitCreate"
    /\ failures < FailureBudget
    /\ failures' = failures + 1
    /\ inflight' = inflight \ {EmbeddingRequest(0, geText)}
    /\ Elapse(0)
    /\ IF CanRetry(retryCount)
         THEN LET waitTime == IF IsQuotaError(error)
                                THEN QuotaWaitTime(retryCount)
                                ELSE OtherWaitTime(retryCount)
              IN /\ gePc' = "sleep"
                 /\ geWait' = waitTime
                 /\ geResult' = geResult
                 /\ geLog' = Append(Append(geLog,
                        [ev |-> "fail", at |-> now', ms |-> 0, error |-> error]),
                        [ev |-> "wait", at |-> now', ms |-> waitTime, error |-> error])
         ELSE /\ gePc' = "thrown"
              /\ geWait' = geWait
              /\ geResult' = Thrown(error)
              /\ geLog' = Append(geLog,
                        [ev |-> "fail", at |-> now', ms |-> 0, error |-> error])
    /\ UNCHANGED <<voice, geText, retryCount, callerVars>>

\* the setTimeout resolves: retryCount++; continue; and the loop's next pass
GeRetry ==
    /\ gePc = "sleep"
    /\ Elapse(geWait)
    /\ retryCount' = retryCount + 1
    /\ IF retryCount + 1 < maxRetries
         THEN /\ gePc' = "awaitCreate"
              /\ geResult' = geResult
              /\ inflight' = inflight \cup {EmbeddingRequest(0, geText)}
              /\ geLog' = Append(geLog,
                     [ev |-> "request", at |-> now', ms |-> 0, error |-> NoError])
         ELSE /\ gePc' = "thrown"
              /\ geResult' = Thrown(Error("Failed to generate embedding after retries", 0))
              /\ UNCHANGED <<inflight, geLog>>
    /\ UNCHANGED <<failures, voice, geText, geWait, callerVars>>

\* the caller takes the result
GeTaken ==
    /\ gePc' = "idle"
    /\ geLog' = <<>>
    /\ geResult' = NoResult
    /\ geText' = NoText
    /\ retryCount' = 0
    /\ geWait' = 0

GeCreateFails == \E error \in ProviderErrors : GeCreateError(error)

\* a direct call, as every method of the client makes it
EmbedCall ==
    /\ op = "embed"
    /\ \E text \in {EmptyText, Text(1, 5)} : GenerateEmbedding(text)
    /\ UNCHANGED <<now, drift, failures, voice, callerVars>>

(***************************************************************************)
(* The vector store: index.namespace(ns).upsert([record]) overwrites the   *)
(* record that has the same id.                                            *)
(***************************************************************************)
UpsertAppend(ns, record) == ns \cup {record}
Upsert(ns, record) == {r \in ns : r.id # record.id} \cup {record}

(***************************************************************************)
(* MemoryClient.storeVoicePattern                                          *)
(***************************************************************************)
VoicePattern(pattern, frequency, provenance, source) ==
    [pattern |-> pattern, frequency |-> frequency, context |-> provenance, source |-> source]
NoPattern == VoicePattern(NoText, 0, "", "")

\* `voice-${pattern.source}-${Date.now()}`
PatternId(source, time) == <<"voice", source, time>>

VoiceRecord(pattern, embedding, time) ==
    [id |-> PatternId(pattern.source, time),
     values |-> embedding,
     pattern |-> pattern.pattern,
     frequency |-> pattern.frequency,
     context |-> pattern.context,
     source |-> pattern.source,
     timestamp |-> time]
NoRecord == VoiceRecord(NoPattern, Embedding(NoText), 0)

\* the call: up to the await of generateEmbedding(pattern.pattern)
StoreVoicePattern(pattern) ==
    /\ svpPc = "idle"
    /\ svpPc' = "embedding"
    /\ svpPattern' = pattern
    /\ svpRecord' = NoRecord
    /\ svpError' = NoError
    /\ GenerateEmbedding(pattern.pattern)

\* the embedding arrived: build the id from Date.now() and call upsert
SvpUpsert ==
    /\ svpPc = "embedding"
    /\ gePc = "returned"
    /\ svpPc' = "upsert"
    /\ svpRecord' = VoiceRecord(svpPattern, geResult.embedding, now)
    /\ GeTaken
    /\ UNCHANGED <<op, restVars, agentVars, leVars, envVars, svpPattern, svpError, ingVars, offIngest>>

\* generateEmbedding threw: catch, log, throw error
SvpEmbeddingThrew ==
    /\ svpPc = "embedding"
    /\ gePc = "thrown"
    /\ svpPc' = "thrown"
    /\ svpError' = geResult.error
    /\ GeTaken
    /\ UNCHANGED <<op, restVars, agentVars, leVars, envVars, svpPattern, svpRecord, ingVars, offIngest>>

\* the upsert succeeded
SvpUpsertOk ==
    /\ svpPc = "upsert"
    /\ voice' = Upsert(voice, svpRecord)
    /\ Elapse(0)
    /\ svpPc' = "returned"
    /\ UNCHANGED <<op, restVars, agentVars, leVars, failures, inflight, geVars, svpPattern, svpRecord, svpError, ingVars, offIngest>>

\* the upsert threw: catch, log, throw error
SvpUpsertError(error) ==
    /\ svpPc = "upsert"
    /\ failures < FailureBudget
    /\ failures' = failures + 1
    /\ Elapse(0)
    /\ svpPc' = "thrown"
    /\ svpError' = error
    /\ UNCHANGED <<op, restVars, agentVars, leVars, inflight, voice, geVars, svpPattern, svpRecord, ingVars, offIngest>>

SvpUpsertFails == \E error \in StoreErrors : SvpUpsertError(error)

\* the caller takes the outcome
SvpTaken ==
    /\ svpPc' = "idle"
    /\ svpPattern' = NoPattern
    /\ svpRecord' = NoRecord
    /\ svpError' = NoError

(***************************************************************************)
(* MemoryClient.ingestLinkedInContent                                      *)
(***************************************************************************)
PostText(n) == Text(n, 100)
Corpus(n) == [k \in 1..n |-> PostText(k)]

LinkedInPattern(text) == VoicePattern(text, 1, "LinkedIn post", "linkedin")

\* await new Promise(resolve => setTimeout(resolve, ms)) after a stored / failed post
postDelay == 100
errorDelay == 500

\* the call, up to the first await: the loop's first pass, or its end
IngestCall(n) ==
    /\ posts' = Corpus(n)
    /\ IF n = 0
         THEN /\ ingPc' = "done"
              /\ UNCHANGED <<inflight, geVars, svpVars>>
         ELSE /\ ingPc' = "storing"
              /\ StoreVoicePattern(LinkedInPattern(Corpus(n)[1]))
    /\ i' = 0
    /\ successCount' = 0
    /\ errorCount' = 0
    /\ ingRuns' = ingRuns + 1
    /\ UNCHANGED <<op, restVars, agentVars, leVars, now, drift, failures, voice, ingError, offIngest>>

IngestLinkedInContent ==
    /\ op = "ingest"
    /\ ingPc = "idle"
    /\ \E n \in 0..MaxPosts : IngestCall(n)

\* a corpus of one or two posts is ingested, and when that is done the same
\* corpus once more
IngestSameCorpus ==
    /\ op = "reingest"
    /\ ingPc \in {"idle", "done"}
    /\ ingRuns < 2
    /\ \E n \in 1..2 :
         /\ ingRuns > 0 => n = Len(posts)
         /\ IngestCall(n)

\* storeVoicePattern returned: successCount++, then the 100 ms delay unless last
IngStored ==
    /\ ingPc = "storing"
    /\ svpPc = "returned"
    /\ successCount' = successCount + 1
    /\ IF i < Len(posts) - 1
         THEN ingPc' = "delay100" /\ i' = i
         ELSE ingPc' = "done" /\ i' = i + 1
    /\ SvpTaken
    /\ UNCHANGED <<op, restVars, agentVars, leVars, envVars, geVars, posts, errorCount, ingError, ingRuns, offIngest>>

\* storeVoicePattern threw: errorCount++, stop on a quota error, else wait 500 ms
StopOnNoError(error) == FALSE
StopOnAnyError(error) == TRUE
StopOnError(error) == IsQuotaError(error)

IngThrew ==
    /\ ingPc = "storing"
    /\ svpPc = "thrown"
    /\ errorCount' = errorCount + 1
    /\ IF StopOnError(svpError)
         THEN ingPc' = "thrown" /\ ingError' = svpError
         ELSE ingPc' = "delay500" /\ ingError' = ingError
    /\ SvpTaken
    /\ UNCHANGED <<op, restVars, agentVars, leVars, envVars, geVars, posts, i, successCount, ingRuns, offIngest>>

\* a delay is over: i++ and the loop's next pass, or its end
IngNext(pc, ms) ==
    /\ ingPc = pc
    /\ Elapse(ms)
    /\ i' = i + 1
    /\ IF i + 1 < Len(posts)
         THEN /\ ingPc' = "storing"
              /\ StoreVoicePattern(LinkedInPattern(posts[i + 2]))
         ELSE /\ ingPc' = "done"
              /\ UNCHANGED <<inflight, geVars, svpVars>>
    /\ UNCHANGED <<op, restVars, agentVars, leVars, failures, voice, posts, successCount, errorCount, ingError, ingRuns, offIngest>>

IngAfterPost == IngNext("delay100", postDelay)
IngAfterError == IngNext("delay500", errorDelay)

(***************************************************************************)
(* MemoryClient.extractEditPatterns.  A text is the sequence of its words  *)
(* (separated by single spaces); ''.split(/\s+/) is [''].                   *)
(***************************************************************************)
Words == {"Hi", "hi", "thanks"}
EditTexts == UNION {[1..n -> Words] : n \in 0..MaxWords}

ToLowerCase(word) == IF word = "Hi" THEN "hi" ELSE word
Split(text) == IF text = <<>> THEN <<"">> ELSE text
LowerWords(text) == [k \in DOMAIN Split(text) |-> ToLowerCase(Split(text)[k])]
Includes(words, word) == \E k \in DOMAIN words : words[k] = word

\* words.slice(0, 10).join(' '): the text of a pattern, after its label
maxPatternWords == 10
Slice(words, n) == SubSeq(words, 1, Min(n, Len(words)))
WordCode(word) == IF word = "" THEN 1 ELSE IF word = "hi" THEN 2 ELSE 3
RECURSIVE JoinCode(_)
JoinCode(words) == IF words = <<>> THEN 0 ELSE WordCode(Head(words)) + 4 * JoinCode(Tail(words))
RECURSIVE JoinLen(_)
JoinLen(words) ==
    IF words = <<>> THEN 0
    ELSE IF Len(words) = 1 THEN (IF Head(words) = "" THEN 0 ELSE IF Head(words) = "hi" THEN 2 ELSE 6)
    ELSE JoinLen(<<Head(words)>>) + 1 + JoinLen(Tail(words))
AddedLabel == [code |-> 1000, len |-> 7]
RemovedLabel == [code |-> 2000, len |-> 9]
PatternText(label, words) ==
    Text(label.code + JoinCode(Slice(words, maxPatternWords)),
         label.len + JoinLen(Slice(words, maxPatternWords)))

\* if (added.length > 0) / if (removed.length > 0)
AnyWordsOrNone(words) == TRUE
AnyWords(words) == Len(words) > 0

\* removed.length > 0 pushes the second pattern
PushRemoved(found, removed) ==
    IF AnyWords(removed) THEN Append(found, PatternText(RemovedLabel, removed)) ELSE found

\* sentWords.filter(word => !draftWords.includes(word)), and the converse
Added(draft, sent) ==
    SelectSeq(LowerWords(sent), LAMBDA word : ~Includes(LowerWords(draft), word))
Removed(draft, sent) ==
    SelectSeq(LowerWords(draft), LAMBDA word : ~Includes(LowerWords(sent), word))

ExtractEditPatterns(draft, sent) ==
    PushRemoved(IF AnyWords(Added(draft, sent))
                  THEN <<PatternText(AddedLabel, Added(draft, sent))>>
                  ELSE <<>>,
                Removed(draft, sent))

(***************************************************************************)
(* MemoryClient.learnFromEdit                                              *)
(***************************************************************************)
\* the context argument: the identifier of the draft the edit started from
DraftContext == "draft 7"
EditPattern(text) == VoicePattern(text, 1, DraftContext, "edit")

\* catch (error) { console.error('Error learning from edit:', error); throw error; }
LearnCatch(error) == lePc' = "thrown" /\ leError' = error

\* the call, up to the first await: the loop's first pass, or its end
LearnFromEdit ==
    /\ op = "learn"
    /\ lePc = "idle"
    /\ \E draft \in EditTexts, sent \in EditTexts :
         /\ draftText' = draft
         /\ sentText' = sent
         /\ lePatterns' = ExtractEditPatterns(draft, sent)
         /\ IF ExtractEditPatterns(draft, sent) = <<>>
              THEN /\ lePc' = "returned"
                   /\ UNCHANGED <<inflight, geVars, svpVars>>
              ELSE /\ lePc' = "storing"
                   /\ StoreVoicePattern(EditPattern(ExtractEditPatterns(draft, sent)[1]))
    /\ leK' = 0
    /\ UNCHANGED <<op, restVars, agentVars, now, drift, failures, voice, leError, ingVars, offIngest>>

\* storeVoicePattern returned: the loop's next pass, or its end
LeStored ==
    /\ lePc = "storing"
    /\ svpPc = "returned"
    /\ leK' = leK + 1
    /\ IF leK + 1 < Len(lePatterns)
         THEN /\ lePc' = "storing"
              /\ svpPattern' = EditPattern(lePatterns[leK + 2])
              /\ svpPc' = "embedding"
              /\ svpRecord' = NoRecord
              /\ svpError' = NoError
              /\ GenerateEmbedding(lePatterns[leK + 2])
         ELSE /\ lePc' = "returned"
              /\ SvpTaken
              /\ UNCHANGED <<inflight, geVars>>
    /\ UNCHANGED <<op, restVars, agentVars, now, drift, failures, voice, draftText, sentText,
                   lePatterns, leError, ingVars, offIngest>>

\* storeVoicePattern threw
LeThrew ==
    /\ lePc = "storing"
    /\ svpPc = "thrown"
    /\ LearnCatch(svpError)
    /\ SvpTaken
    /\ UNCHANGED <<op, restVars, agentVars, envVars, geVars, draftText, sentText, lePatterns, leK,
                   ingVars, offIngest>>

(***************************************************************************)
(* The vector store: index.namespace(ns).query({vector, topK, filter}).    *)
(* The filter is an equality on one metadata field; the ranking is by      *)
(* similarity of the vectors, which the model leaves open: any order of    *)
(* the topK best of the matching records may come back.                    *)
(***************************************************************************)
Filter(field, value) == [field |-> field, value |-> value]
NoFilter == Filter("", "")
MatchesAnyRecord(r, filter) == TRUE
Matches(r, filter) ==
    \/ filter.field = ""
    \/ filter.field = "from" /\ r.from = filter.value
    \/ filter.field = "source" /\ r.source = filter.value

Query(ns, topK, filter) == [ns |-> ns, topK |-> topK, filter |-> filter]
NoQuery == Query("", 0, NoFilter)
Namespace(ns) == IF ns = "conversations" THEN conversations ELSE voice

Rankings(S, topK) ==
    {m \in [1..Min(topK, Cardinality(S)) -> S] :
        \A a, b \in DOMAIN m : a # b => m[a] # m[b]}
Matched(q) == Rankings({r \in Namespace(q.ns) : Matches(r, q.filter)}, q.topK)

\* text.substring(0, n)
Prefix(text, n) == Text(text.id, Min(text.len, n))

(***************************************************************************)
(* MemoryClient.getConversationHistory, searchRelevantContext and          *)
(* getVoicePatterns: embed the query text, query one namespace, map the    *)
(* matches to SearchResults; any error is caught and gives [].             *)
(***************************************************************************)
SearchResult(match, text) == [id |-> match.id, metadata |-> match, text |-> text]
ResultText(ns, match) == IF ns = "conversations" THEN match.body ELSE match.pattern
SearchResults(ns, matches) ==
    [k \in DOMAIN matches |-> SearchResult(matches[k], ResultText(ns, matches[k]))]

ContactA == "ann@example.com"
ContactB == "bob@example.com"
Contacts == {ContactA, ContactB}
\* the text of an address, and the fixed query text of getVoicePatterns
ContactText(email) == IF email = ContactA THEN Text(61, 15) ELSE Text(62, 15)
StyleQueryText == Text(63, 37)

\* a query of the assembly starts / settles
Started(fn) == [queries EXCEPT ![fn] = "pending"]
Settled(fn, how) == [queries EXCEPT ![fn] = how]

\* the call, up to the await of generateEmbedding
SearchCall(fn, text, query) ==
    /\ srPc' = "embedding"
    /\ srFn' = fn
    /\ srQuery' = query
    /\ srResult' = <<>>
    /\ GenerateEmbedding(text)

GetConversationHistory(email, limit) ==
    SearchCall("history", ContactText(email),
               Query("conversations", limit, Filter("from", email)))
SearchRelevantContext(query, email, limit) ==
    SearchCall("relevant", query,
               Query("conversations", limit, Filter("from", email)))
GetVoicePatterns(limit) ==
    SearchCall("patterns", StyleQueryText, Query("voice", limit, NoFilter))

\* catch (error) { console.error(...); return []; }
SearchCatchRethrow ==
    /\ srPc' = "thrown"
    /\ srResult' = <<>>
    /\ queries' = Settled(srFn, "failed")
SearchCatch ==
    /\ srPc' = "returned"
    /\ srResult' = <<>>
    /\ queries' = Settled(srFn, "failed")

\* the embedding arrived: send the query
SrQuery ==
    /\ srPc = "embedding"
    /\ gePc = "returned"
    /\ srPc' = "query"
    /\ GeTaken
    /\ UNCHANGED <<op, restVars, agentVars, leVars, envVars, svpVars, ingVars, ivVars, conversations, queries,
                   srFn, srQuery, srResult, bcVars, gvVars>>

\* generateEmbedding threw
SrEmbeddingThrew ==
    /\ srPc = "embedding"
    /\ gePc = "thrown"
    /\ SearchCatch
    /\ GeTaken
    /\ UNCHANGED <<op, restVars, agentVars, leVars, envVars, svpVars, ingVars, ivVars, conversations,
                   srFn, srQuery, bcVars, gvVars>>

\* the query resolved: results.matches?.map(...)
SrQueryOk ==
    /\ srPc = "query"
    /\ Elapse(0)
    /\ \E matches \in Matched(srQuery) :
         srResult' = SearchResults(srQuery.ns, matches)
    /\ srPc' = "returned"
    /\ queries' = Settled(srFn, "ok")
    /\ UNCHANGED <<op, restVars, agentVars, leVars, failures, inflight, voice, geVars, svpVars, ingVars, ivVars,
                   conversations, srFn, srQuery, bcVars, gvVars>>

\* the query threw
SrQueryError(error) ==
    /\ srPc = "query"
    /\ failures < FailureBudget
    /\ failures' = failures + 1
    /\ Elapse(0)
    /\ SearchCatch
    /\ UNCHANGED <<op, restVars, agentVars, leVars, inflight, voice, geVars, svpVars, ingVars, ivVars,
                   conversations, srFn, srQuery, bcVars, gvVars>>

SrQueryFails == \E error \in StoreErrors : SrQueryError(error)

\* the caller takes the results
SrTaken ==
    /\ srPc' = "idle"
    /\ srFn' = ""
    /\ srQuery' = NoQuery
    /\ srResult' = <<>>

(***************************************************************************)
(* A returned string is the sequence of the pieces appended to it.         *)
(***************************************************************************)
Token(kind, n, id, text) == [kind |-> kind, n |-> n, id |-> id, text |-> text]
Kinds(string) == {string[k].kind : k \in DOMAIN string}

RECURSIVE Concat(_)
Concat(seqs) == IF seqs = <<>> THEN <<>> ELSE Head(seqs) \o Concat(Tail(seqs))

(***************************************************************************)
(* MemoryClient.buildContextForDraft                                       *)
(***************************************************************************)
MessageBody == Text(50, 800)
snippetLength == 200

\* if (ctx.id !== history[0]?.id)
IsDuplicateOfAny(ctx, hist) == \E k \in DOMAIN hist : hist[k].id = ctx.id
IsDuplicate(ctx, hist) == Len(hist) > 0 /\ hist[1].id = ctx.id

PastConversations(hist) ==
    IF Len(hist) > 0
      THEN <<Token("PastHeader", 0, 0, NoText)>> \o
           [k \in DOMAIN hist |->
               Token("PastItem", k, hist[k].id, Prefix(hist[k].text, snippetLength))]
      ELSE <<>>
RelevantContext(relevant, hist) ==
    IF Len(relevant) > 0
      THEN <<Token("RelevantHeader", 0, 0, NoText)>> \o
           Concat([k \in DOMAIN relevant |->
               IF IsDuplicate(relevant[k], hist)
                 THEN <<>>
                 ELSE <<Token("RelevantItem", 0, relevant[k].id,
                              Prefix(relevant[k].text, snippetLength))>>])
      ELSE <<>>
BuildContext(hist, relevant) == PastConversations(hist) \o RelevantContext(relevant, hist)

\* catch (error) { console.error(...); return ''; }
BuildContextCatchRethrow == bcPc' = "thrown" /\ context' = <<>>
BuildContextCatch == bcPc' = "returned" /\ context' = <<>>

\* the call, up to the await of getConversationHistory(contactEmail, 3)
BuildContextForDraft ==
    /\ op = "context"
    /\ bcPc = "idle"
    /\ \E email \in Contacts :
         /\ contactEmail' = email
         /\ GetConversationHistory(email, 3)
    /\ currentEmailBody' = MessageBody
    /\ bcPc' = "history"
    /\ queries' = Started("history")
    /\ UNCHANGED <<op, restVars, agentVars, leVars, now, drift, failures, voice, svpVars, ingVars, ivVars,
                   conversations, history, relevantContext, context, gvVars>>

\* the history is there: searchRelevantContext(currentEmailBody, contactEmail, 2)
BcHistory ==
    /\ bcPc = "history"
    /\ srPc \in {"returned", "thrown"}
    /\ IF srPc = "returned"
         THEN /\ history' = srResult
              /\ bcPc' = "relevant"
              /\ SearchRelevantContext(currentEmailBody, contactEmail, 2)
              /\ queries' = Started("relevant")
              /\ UNCHANGED context
         ELSE /\ BuildContextCatch
              /\ SrTaken
              /\ UNCHANGED <<history, queries, inflight, geVars>>
    /\ UNCHANGED <<op, restVars, agentVars, leVars, now, drift, failures, voice, svpVars, ingVars, ivVars,
                   conversations, contactEmail, currentEmailBody, relevantContext, gvVars>>

\* the relevant context is there: build the string and return it
BcRelevant ==
    /\ bcPc = "relevant"
    /\ srPc \in {"returned", "thrown"}
    /\ IF srPc = "returned"
         THEN /\ relevantContext' = srResult
              /\ context' = BuildContext(history, srResult)
              /\ bcPc' = "returned"
         ELSE /\ BuildContextCatch
              /\ UNCHANGED relevantContext
    /\ SrTaken
    /\ UNCHANGED <<op, restVars, agentVars, leVars, envVars, geVars, svpVars, ingVars, ivVars, conversations, queries,
                   contactEmail, currentEmailBody, history, gvVars>>

(***************************************************************************)
(* MemoryClient.getVoiceGuidance                                           *)
(***************************************************************************)
NoId == <<"voice", "", 0>>
Piece(kind) == Token(kind, 0, NoId, NoText)

\* relevantLinkedInContent.slice(0, 3), the samples longer than 50 characters
Examples(linkedIn) ==
    IF Len(linkedIn) > 0
      THEN <<Piece("ExamplesHeader")>> \o
           Concat([k \in 1..Min(3, Len(linkedIn)) |->
               IF linkedIn[k].text.len > 50
                 THEN <<Token(IF linkedIn[k].text.len > 200 THEN "Example..."
                                                           ELSE "Example",
                              k, linkedIn[k].id, Prefix(linkedIn[k].text, 200))>>
                 ELSE <<>>])
      ELSE <<>>
\* the patterns that have a text, cut to 150 characters
CommonPatterns(found) ==
    IF Len(found) > 0
      THEN <<Piece("PatternsHeader")>> \o
           Concat([k \in DOMAIN found |->
               IF found[k].text.len > 0
                 THEN <<Token(IF found[k].text.len > 150 THEN "Pattern..."
                                                       ELSE "Pattern",
                              0, found[k].id, Prefix(found[k].text, 150))>>
                 ELSE <<>>])
      ELSE <<>>
BuildGuidance(linkedIn, found) ==
    IF Len(found) = 0 /\ Len(linkedIn) = 0
      THEN <<>>
      ELSE <<Piece("VoiceProfileHeader")>> \o Examples(linkedIn) \o
           CommonPatterns(found) \o <<Piece("Guidelines")>>

\* catch (error) { console.error(...); return ''; }
GuidanceCatchRethrow == gvPc' = "thrown" /\ guidance' = <<>>
GuidanceCatch == gvPc' = "returned" /\ guidance' = <<>>

LinkedInQuery == Query("voice", 5, Filter("source", "linkedin"))

\* the call, up to its first await: the embedding of emailContext, or, when
\* there is no emailContext, getVoicePatterns(10)
GetVoiceGuidance ==
    /\ op = "guidance"
    /\ gvPc = "idle"
    /\ \E text \in {EmptyText, MessageBody} :
         /\ emailContext' = text
         /\ IF text.len > 0
              THEN /\ gvPc' = "liEmbedding"
                   /\ queries' = Started("linkedin")
                   /\ GenerateEmbedding(text)
                   /\ UNCHANGED srVars
              ELSE /\ gvPc' = "patterns"
                   /\ queries' = Started("patterns")
                   /\ GetVoicePatterns(10)
    /\ UNCHANGED <<op, restVars, agentVars, leVars, now, drift, failures, voice, svpVars, ingVars, ivVars,
                   conversations, bcVars, relevantLinkedInContent, patterns, guidance>>

\* the embedding of emailContext is there: query the linkedin patterns
GvLinkedInQuery ==
    /\ gvPc = "liEmbedding"
    /\ gePc \in {"returned", "thrown"}
    /\ IF gePc = "returned"
         THEN gvPc' = "liQuery" /\ UNCHANGED <<queries, guidance>>
         ELSE /\ GuidanceCatch
              /\ queries' = Settled("linkedin", "failed")
    /\ GeTaken
    /\ UNCHANGED <<op, restVars, agentVars, leVars, envVars, svpVars, ingVars, ivVars, conversations, srVars, bcVars,
                   emailContext, relevantLinkedInContent, patterns>>

\* the linkedin query resolved: map the matches, then getVoicePatterns(10)
GvLinkedInOk ==
    /\ gvPc = "liQuery"
    /\ Elapse(0)
    /\ \E matches \in Matched(LinkedInQuery) :
         relevantLinkedInContent' = SearchResults("voice", matches)
    /\ gvPc' = "patterns"
    /\ queries' = [queries EXCEPT !["linkedin"] = "ok", !["patterns"] = "pending"]
    /\ GetVoicePatterns(10)
    /\ UNCHANGED <<op, restVars, agentVars, leVars, failures, voice, svpVars, ingVars, ivVars, conversations, bcVars,
                   emailContext, patterns, guidance>>

\* the linkedin query threw: the catch of getVoiceGuidance
GvLinkedInError(error) ==
    /\ gvPc = "liQuery"
    /\ failures < FailureBudget
    /\ failures' = failures + 1
    /\ Elapse(0)
    /\ GuidanceCatch
    /\ queries' = Settled("linkedin", "failed")
    /\ UNCHANGED <<op, restVars, agentVars, leVars, inflight, voice, geVars, svpVars, ingVars, ivVars, conversations,
                   srVars, bcVars, emailContext, relevantLinkedInContent, patterns>>

GvLinkedInFails == \E error \in StoreErrors : GvLinkedInError(error)

\* the patterns are there: build the string and return it
GvPatterns ==
    /\ gvPc = "patterns"
    /\ srPc \in {"returned", "thrown"}
    /\ IF srPc = "returned"
         THEN /\ patterns' = srResult
              /\ guidance' = BuildGuidance(relevantLinkedInContent, srResult)
              /\ gvPc' = "returned"
         ELSE /\ GuidanceCatch
              /\ UNCHANGED patterns
    /\ SrTaken
    /\ UNCHANGED <<op, restVars, agentVars, leVars, envVars, geVars, svpVars, ingVars, ivVars, conversations, queries,
                   bcVars, emailContext, relevantLinkedInContent>>

(***************************************************************************)
(* PineconeMemoryClient.indexVoice: Promise.all over items.map(async ...), *)
(* each mapper awaiting generateEmbedding(item.text) (one request, no      *)
(* retry), then one upsert of all the vectors.                             *)
(***************************************************************************)
VectorItem(id, text) == [id |-> id, text |-> text]
VoiceItems(n) == [k \in 1..n |-> VectorItem(k, PostText(k))]

VoiceVector(item, embedding) ==
    [id |-> <<"voice_", item.id>>,
     values |-> embedding,
     type |-> "voice",
     content |-> Prefix(item.text, 1000)]
NoVector == VoiceVector(VectorItem(0, NoText), Embedding(NoText))

\* this.index.upsert(vectors, 'voice')
UpsertAll(ns, records) ==
    {r \in ns : \A k \in DOMAIN records : r.id # records[k].id}
        \cup {records[k] : k \in DOMAIN records}

\* the call: every mapper runs up to its await, so every request leaves
IndexVoice ==
    /\ op = "indexVoice"
    /\ ivPc = "idle"
    /\ \E n \in 0..MaxPosts :
         /\ items' = VoiceItems(n)
         /\ vectors' = [k \in 1..n |-> NoVector]
         /\ inflight' = {EmbeddingRequest(k, VoiceItems(n)[k].text) : k \in 1..n}
         /\ ivPc' = IF n = 0 THEN "upsert" ELSE "embedding"
    /\ UNCHANGED <<op, restVars, agentVars, leVars, now, drift, failures, voice, geVars, svpVars, ingVars, asmVars,
                   ivError>>

\* the embedding of item k arrives: its mapper returns the vector; with the
\* last one Promise.all resolves and upsert is called
IvEmbedded(k) ==
    /\ EmbeddingRequest(k, items[k].text) \in inflight
    /\ inflight' = inflight \ {EmbeddingRequest(k, items[k].text)}
    /\ Elapse(0)
    /\ vectors' = [vectors EXCEPT ![k] = VoiceVector(items[k], Embedding(items[k].text))]
    /\ ivPc' = IF ivPc = "embedding" /\ \A j \in DOMAIN vectors' : vectors'[j] # NoVector
                 THEN "upsert"
                 ELSE ivPc
    /\ UNCHANGED <<op, restVars, agentVars, leVars, failures, voice, geVars, svpVars, ingVars, asmVars, items, ivError>>

\* the embedding of item k fails: its mapper throws, Promise.all rejects at
\* once and indexVoice throws; the other requests stay in flight
IvEmbeddingError(k) ==
    /\ EmbeddingRequest(k, items[k].text) \in inflight
    /\ failures < FailureBudget
    /\ failures' = failures + 1
    /\ inflight' = inflight \ {EmbeddingRequest(k, items[k].text)}
    /\ Elapse(0)
    /\ IF ivPc = "embedding"
         THEN ivPc' = "thrown" /\ ivError' = Error("Failed to index voice items", 0)
         ELSE UNCHANGED <<ivPc, ivError>>
    /\ UNCHANGED <<op, restVars, agentVars, leVars, voice, geVars, svpVars, ingVars, asmVars, items, vectors>>

IvEmbeddingArrives == \E k \in DOMAIN items : IvEmbedded(k)
IvEmbeddingFails == \E k \in DOMAIN items : IvEmbeddingError(k)

IvUpsertOk ==
    /\ ivPc = "upsert"
    /\ Elapse(0)
    /\ voice' = UpsertAll(voice, vectors)
    /\ ivPc' = "returned"
    /\ UNCHANGED <<op, restVars, agentVars, leVars, failures, inflight, geVars, svpVars, ingVars, asmVars,
                   items, vectors, ivError>>

IvUpsertFails ==
    /\ ivPc = "upsert"
    /\ failures < FailureBudget
    /\ failures' = failures + 1
    /\ Elapse(0)
    /\ ivPc' = "thrown"
    /\ ivError' = Error("Failed to index voice items", 0)
    /\ UNCHANGED <<op, restVars, agentVars, leVars, inflight, voice, geVars, svpVars, ingVars, asmVars, items, vectors>>

(***************************************************************************)
(* MemoryClient.storeConversation: the record it upserts.                  *)
(***************************************************************************)
\* `Subject: ${context.subject}\nFrom: ${context.from}\n${context.body}`
SearchText(emailId, body) == Text(200 + emailId, body.len + 40)

ConversationRecord(emailId, from, body) ==
    [id |-> emailId,
     values |-> Embedding(SearchText(emailId, body)),
     subject |-> emailId,
     from |-> from,
     timestamp |-> emailId,
     summary |-> "",
     body |-> Prefix(body, 1000)]

(***************************************************************************)
(* MemoryClient.storeConversation, called with contexts of two emails;     *)
(* each email in a first version and in a longer one (over 1000            *)
(* characters), which the search text tells apart by its length.           *)
(***************************************************************************)
ConversationContext(emailId, from, body) == [emailId |-> emailId, from |-> from, body |-> body]
NoContext == ConversationContext(0, "", NoText)
Contexts ==
    {ConversationContext(id, ContactA, body) :
        id \in 1..2, body \in {Text(400, 600), Text(450, 1200)}}

\* the call: up to the await of generateEmbedding(searchText)
StoreConversation ==
    /\ op = "store"
    /\ scPc \in {"idle", "returned", "thrown"}
    /\ scCalls < MaxStores
    /\ \E ctx \in Contexts :
         /\ scContext' = ctx
         /\ GenerateEmbedding(SearchText(ctx.emailId, ctx.body))
    /\ scPc' = "embedding"
    /\ scRecord' = ConversationRecord(0, "", NoText)
    /\ scCalls' = scCalls + 1
    /\ UNCHANGED <<op, styVars, toneVars, startVars, tokVars, agentVars, leVars, now, drift, failures, voice, svpVars, ingVars,
                   offIngest, scDone>>

\* the embedding arrived: upsert is called with the record
ScUpsert ==
    /\ scPc = "embedding"
    /\ gePc = "returned"
    /\ scPc' = "upsert"
    /\ scRecord' = [ConversationRecord(scContext.emailId, scContext.from, scContext.body)
                        EXCEPT !.values = geResult.embedding]
    /\ GeTaken
    /\ UNCHANGED <<op, styVars, toneVars, startVars, tokVars, agentVars, leVars, envVars, svpVars, ingVars, offIngest,
                   scContext, scCalls, scDone>>

\* generateEmbedding threw: catch, log, throw error
ScEmbeddingThrew ==
    /\ scPc = "embedding"
    /\ gePc = "thrown"
    /\ scPc' = "thrown"
    /\ GeTaken
    /\ UNCHANGED <<op, styVars, toneVars, startVars, tokVars, agentVars, leVars, envVars, svpVars, ingVars, offIngest,
                   scContext, scRecord, scCalls, scDone>>

\* the upsert succeeded
ScUpsertOk ==
    /\ scPc = "upsert"
    /\ conversations' = Upsert(conversations, scRecord)
    /\ Elapse(0)
    /\ scPc' = "returned"
    /\ scDone' = Append(scDone, scContext)
    /\ UNCHANGED <<op, styVars, toneVars, startVars, tokVars, agentVars, leVars, failures, inflight, voice, geVars, svpVars, ingVars,
                   ivVars, queries, srVars, bcVars, gvVars, scContext, scRecord, scCalls>>

\* the upsert threw: catch, log, throw error
ScUpsertFails ==
    /\ scPc = "upsert"
    /\ failures < FailureBudget
    /\ failures' = failures + 1
    /\ Elapse(0)
    /\ scPc' = "thrown"
    /\ UNCHANGED <<op, styVars, toneVars, startVars, tokVars, agentVars, leVars, inflight, voice, geVars, svpVars, ingVars,
                   offIngest, scContext, scRecord, scCalls, scDone>>

ScNext == ScUpsert \/ ScEmbeddingThrew \/ ScUpsertOk \/ ScUpsertFails

(***************************************************************************)
(* SentMonitorService.analyzeStyleChanges.  A text is the sequence of its  *)
(* lines (split('\n')), a line the sequence of its words.  A mail is       *)
(* written from a greeting, a body and a closing, laid out on one line, on *)
(* four lines, or in paragraphs separated by blank lines.                  *)
(***************************************************************************)
Greetings == {<<"Hi", "John,">>, <<"Hello", "John,">>}
Bodies ==
    {<<"Thanks", "for", "reaching", "out.", "I", "will", "review", "and", "get", "back",
       "to", "you.">>,
     <<"Happy", "to", "take", "a", "look", "and", "follow", "up", "by", "Friday.">>,
     <<"Will", "do.">>}
Closings == {<<"Best,", "Amy">>, <<"Cheers,", "Amy">>}
Layouts == {"one line", "four lines", "paragraphs"}
Mail(greeting, body, closing, layout) ==
    [greeting |-> greeting, body |-> body, closing |-> closing, layout |-> layout]
Mails == {Mail(g, b, c, l) : g \in Greetings, b \in Bodies, c \in Closings, l \in Layouts}
NoMail == Mail(<<>>, <<>>, <<>>, "one line")

\* the text of a mail
Render(mail) ==
    IF mail.layout = "one line" THEN <<mail.greeting \o mail.body \o mail.closing>>
    ELSE IF mail.layout = "four lines"
      THEN <<mail.greeting, mail.body, <<mail.closing[1]>>, <<mail.closing[2]>>>>
    ELSE <<mail.greeting, <<>>, mail.body, <<>>, <<mail.closing[1]>>, <<mail.closing[2]>>>>

\* text.split(' ').length: a line break is no space
RECURSIVE Spaces(_)
Spaces(text) ==
    IF text = <<>> THEN 0
    ELSE (IF Len(Head(text)) > 1 THEN Len(Head(text)) - 1 ELSE 0) + Spaces(Tail(text))
SplitLength(text) == 1 + Spaces(text)

\* .trim() of lines joined by ' ': blank lines at either end vanish
RECURSIVE TrimStart(_)
TrimStart(text) ==
    IF text # <<>> /\ Head(text) = <<>> THEN TrimStart(Tail(text)) ELSE text
RECURSIVE TrimEnd(_)
TrimEnd(text) ==
    IF text # <<>> /\ text[Len(text)] = <<>> THEN TrimEnd(SubSeq(text, 1, Len(text) - 1))
    ELSE text
Trim(text) == TrimEnd(TrimStart(text))

\* /^(Hi|Hello|Hey|Good morning|Good afternoon)/i on the first line
greetingWords == {"Hi", "Hello", "Hey"}
extractGreeting(text) ==
    LET firstLine == text[1]
    IN IF firstLine # <<>> /\ firstLine[1] \in greetingWords THEN <<firstLine>> ELSE <<>>

\* /(Best regards|Thanks|Thank you|Cheers|Best|Sincerely)/i anywhere in the
\* last three lines
closingWords == {"Thanks", "Best,", "Cheers,"}
LastLines(text) == Trim(SubSeq(text, IF Len(text) > 3 THEN Len(text) - 2 ELSE 1, Len(text)))
extractClosing(text) ==
    IF \E k \in DOMAIN LastLines(text) :
          \E w \in DOMAIN LastLines(text)[k] : LastLines(text)[k][w] \in closingWords
      THEN LastLines(text)
      ELSE <<>>

StyleChange(kind, from, to) == [kind |-> kind, from |-> from, to |-> to]

\* editedWords < originalWords * 0.8 / editedWords > originalWords * 1.2
LengthChanges(originalWords, editedWords) ==
    IF 10 * editedWords < 8 * originalWords
      THEN <<StyleChange("Amy prefers shorter responses", <<>>, <<>>)>>
    ELSE IF 10 * editedWords > 12 * originalWords
      THEN <<StyleChange("Amy prefers more detailed responses", <<>>, <<>>)>>
    ELSE <<>>
GreetingChanges(originalGreeting, editedGreeting) ==
    IF originalGreeting # editedGreeting
      THEN <<StyleChange("Greeting preference", originalGreeting, editedGreeting)>>
      ELSE <<>>
ClosingChanges(originalClosing, editedClosing) ==
    IF originalClosing # editedClosing
      THEN <<StyleChange("Closing preference", originalClosing, editedClosing)>>
      ELSE <<>>

analyzeStyleChanges(originalText, editedText) ==
    LengthChanges(SplitLength(originalText), SplitLength(editedText))
      \o GreetingChanges(extractGreeting(originalText), extractGreeting(editedText))
      \o ClosingChanges(extractClosing(originalText), extractClosing(editedText))

AnalyzeStyleChanges ==
    /\ op = "style"
    /\ styPc = "idle"
    /\ styPc' = "done"
    /\ styleChanges' = analyzeStyleChanges(Render(original), Render(edited))
    /\ UNCHANGED <<coreVars, scVars, toneVars, startVars, tokVars, original, edited>>

(***************************************************************************)
(* LinkedInIngester.analyzeTone and calculateToneScore.  A text is known   *)
(* by how often it holds each keyword; a score is a fraction.              *)
(***************************************************************************)
warmthWords == <<"happy", "excited", "pleased", "wonderful", "great", "love">>
directnessWords == <<"directly", "clearly", "specifically", "exactly", "precisely">>
formalityWords == <<"please", "thank you", "regards", "sincerely", "respectfully">>
Range(seq) == {seq[k] : k \in DOMAIN seq}
Keywords == Range(warmthWords) \cup Range(directnessWords) \cup Range(formalityWords)

\* a corpus that holds the first w, d and f keywords of the lists, each of
\* them so many times
LeadingCount(words, word, n, times) ==
    IF \E k \in 1..n : words[k] = word THEN times ELSE 0
ToneText(w, d, f, times) ==
    [word \in Keywords |->
        LeadingCount(warmthWords, word, w, times)
          + LeadingCount(directnessWords, word, d, times)
          + LeadingCount(formalityWords, word, f, times)]
ToneTexts ==
    {ToneText(w, d, f, times) :
        w \in 0..Len(warmthWords), d \in 0..Len(directnessWords),
        f \in 0..Len(formalityWords), times \in 1..MaxOccurrences}
NoToneText == ToneText(0, 0, 0, 1)

Fraction(num, den) == [num |-> num, den |-> den]
\* Math.min(a / b, 1)
MinOne(num, den) == IF num > den THEN Fraction(den, den) ELSE Fraction(num, den)

\* words.filter(word => lowerText.includes(word)).length
IncludedWords(text, words) == Cardinality({k \in DOMAIN words : text[words[k]] > 0})
RECURSIVE Occurrences(_, _)
Occurrences(text, words) ==
    IF words = <<>> THEN 0 ELSE text[Head(words)] + Occurrences(text, Tail(words))

calculateToneScorePerOccurrence(text, words) == Fraction(Occurrences(text, words), Len(words))
calculateToneScore(text, words) == MinOne(IncludedWords(text, words), Len(words))

analyzeTone(text) ==
    [warmth |-> calculateToneScore(text, warmthWords),
     directness |-> calculateToneScore(text, directnessWords),
     formality |-> calculateToneScore(text, formalityWords)]
NoSliders == [warmth |-> Fraction(0, 1), directness |-> Fraction(0, 1), formality |-> Fraction(0, 1)]

AnalyzeTone ==
    /\ op = "tone"
    /\ tonePc = "idle"
    /\ tonePc' = "done"
    /\ toneSliders' = analyzeTone(allText)
    /\ UNCHANGED <<coreVars, scVars, styVars, startVars, tokVars, allText>>

(***************************************************************************)
(* MCPOutlookClient.getAccessToken and OutlookGraphClient.getAccessToken   *)
(* (the same code in both).  Time is counted in minutes: Date.now() is     *)
(* minute, the 60000 ms of the buffer is one minute.  The authority issues *)
(* tokens that expire TokenLifetime minutes after they were issued;        *)
(* response.expiresOn is that instant as a Date, or null.                  *)
(***************************************************************************)
StartMinute == 5        \* Date.now() when the client is constructed
TokenLifetime == 3      \* minutes a token is valid for
MaxElapsed == 8         \* minutes a behaviour lasts
MaxAcquisitions == 3    \* tokens a behaviour sees issued

\* private accessToken: string | null = null
NoToken == 0
NoTokenResult == [at |-> 0, token |-> NoToken, reused |-> FALSE, thrown |-> FALSE]

\* - 60000; // 1 min buffer
oneMinuteBuffer == 1

\* response.expiresOn: null, or a Date, known by its minutes since the epoch
NoDate == <<>>
Date(minutes) == <<minutes>>
\* (response.expiresOn?.getTime() || 0)
ExpiresOnOrZero(date) == IF date = NoDate THEN 0 ELSE date[1]

\* if (this.accessToken && Date.now() < this.tokenExpiry)
HoldsFreshToken == accessToken # NoToken /\ minute < tokenExpiry

\* this.tokenExpiry = Date.now() + (response.expiresOn?.getTime() || 0) - 60000
NewTokenExpiry(date) == minute + ExpiresOnOrZero(date) - oneMinuteBuffer

\* getAccessToken, up to the await of acquireTokenByClientCredential
GetAccessToken ==
    /\ op = "token" /\ tokPc = "idle"
    /\ IF HoldsFreshToken
         THEN /\ tokResult' = [at |-> minute, token |-> accessToken,
                               reused |-> TRUE, thrown |-> FALSE]
              /\ UNCHANGED tokPc
         ELSE /\ tokPc' = "acquiring"
              /\ UNCHANGED tokResult
    /\ UNCHANGED <<coreVars, scVars, styVars, toneVars, startVars, minute, accessToken,
                   tokenExpiry, expiresOn, acquired>>

\* acquireTokenByClientCredential resolves with a token
AcquireTokenResolves ==
    /\ op = "token" /\ tokPc = "acquiring" /\ acquired < MaxAcquisitions
    /\ \E date \in {NoDate, Date(minute + TokenLifetime)} :
         /\ acquired' = acquired + 1
         /\ accessToken' = acquired'
         /\ expiresOn' = date
         /\ tokenExpiry' = NewTokenExpiry(date)
         /\ tokResult' = [at |-> minute, token |-> accessToken',
                          reused |-> FALSE, thrown |-> FALSE]
    /\ tokPc' = "idle"
    /\ UNCHANGED <<coreVars, scVars, styVars, toneVars, startVars, minute>>

\* it rejects, or resolves with no token: getAccessToken throws
AcquireTokenFails ==
    /\ op = "token" /\ tokPc = "acquiring"
    /\ tokResult' = [at |-> minute, token |-> NoToken, reused |-> FALSE, thrown |-> TRUE]
    /\ tokPc' = "idle"
    /\ UNCHANGED <<coreVars, scVars, styVars, toneVars, startVars, minute, accessToken,
                   tokenExpiry, expiresOn, acquired>>

\* a minute passes
MinutePasses ==
    /\ op = "token" /\ minute < StartMinute + MaxElapsed
    /\ minute' = minute + 1
    /\ UNCHANGED <<coreVars, scVars, styVars, toneVars, startVars, tokPc, accessToken,
                   tokenExpiry, expiresOn, acquired, tokResult>>

(***************************************************************************)
(* InboxScoutAgent.initializeLinkedInData, run by the constructor at every *)
(* start of the process.  The voice namespace outlives the process; the    *)
(* export that is ingested is the same at every start.                     *)
(***************************************************************************)
\* the process starts: nothing of an earlier process is left in memory
ProcessStart ==
    /\ op = "startup"
    /\ startPc \in {"down", "skipped", "ingested", "aborted"}
    /\ starts < MaxStarts
    /\ starts' = starts + 1
    /\ startPc' = "checking"
    /\ ingPc' = "idle" /\ i' = 0 /\ successCount' = 0 /\ errorCount' = 0
    /\ ingError' = NoError
    /\ UNCHANGED <<op, envVars, geVars, svpVars, posts, ingRuns, leVars, asmVars, ivVars,
                   agentVars, scVars, styVars, toneVars, tokVars, startLog>>

\* filter: { source: { $eq: 'linkedin' } }, topK 1: (results.matches?.length || 0) > 0
HasLinkedInData == \E r \in voice : Matches(r, Filter("source", "linkedin"))

\* if (hasData) return, else the ingestion is started
SkipsWhenData(hasData) == IF hasData THEN "skipped" ELSE "noData"

\* hasLinkedInData resolves: with the answer of the store, or, when its
\* embedding or its query failed, with false
HasLinkedInDataSettles ==
    /\ startPc = "checking"
    /\ \/ /\ startPc' = SkipsWhenData(HasLinkedInData)
          /\ UNCHANGED failures
       \/ /\ failures < FailureBudget
          /\ failures' = failures + 1
          /\ startPc' = SkipsWhenData(FALSE)
    /\ startLog' = Append(startLog, startPc')
    /\ UNCHANGED <<op, now, drift, inflight, voice, geVars, svpVars, ingVars, leVars, asmVars,
                   ivVars, agentVars, scVars, styVars, toneVars, tokVars,
                   starts>>

\* ingester.ingestLinkedInExport(zipPath): the posts of the export are stored
StartIngestion ==
    /\ startPc = "noData"
    /\ ingPc = "idle"
    /\ \E n \in 1..2 :
         /\ posts # <<>> => n = Len(posts)
         /\ IngestCall(n)

\* the ingestion ended: completed, or caught with a quota error ('The
\* ingestion will retry automatically on next deployment')
IngestionSettles ==
    /\ startPc = "noData"
    /\ ingPc \in {"done", "thrown"}
    /\ startPc' = IF ingPc = "done" THEN "ingested" ELSE "aborted"
    /\ startLog' = [startLog EXCEPT ![Len(startLog)] = startPc']
    /\ UNCHANGED <<coreVars, scVars, styVars, toneVars, tokVars, starts>>

(***************************************************************************)
(* The mailbox.  A message is known by its id; for the rule-based filter a *)
(* text is known by the patterns it includes.                              *)
(***************************************************************************)
\* Message 0 is a newsletter that lies unread in the mailbox from the start;
\* the messages that arrive later are written by the two contacts in turn.
NoReplySender == "noreply@shop.example"
Newsletter == 0
Sender(n) == IF n = Newsletter THEN NoReplySender ELSE IF n % 2 = 1 THEN ContactA ELSE ContactB

EmailMessage(n) ==
    [id |-> n,
     subject |-> Text(300 + n, 60),
     body |-> Text(400 + n, 600),
     from |-> Sender(n),
     includes |-> [address |-> IF Sender(n) = NoReplySender THEN {"noreply"} ELSE {},
                   subject |-> {},
                   body |-> IF Sender(n) = NoReplySender THEN {"unsubscribe"} ELSE {}]]

\* a message arrives in the mailbox, unread.  The agent looks at the mailbox
\* only when getUnreadMessages resolves, so an arrival during a run is seen
\* exactly as one after it: arrivals are taken between the runs.
MailArrives ==
    /\ op = "agent"
    /\ arrived < MaxMessages
    /\ \A n \in DOMAIN handlers : handlers[n].pc \in {"skipped", "done"}
    /\ arrived' = arrived + 1
    /\ unread' = unread \cup {arrived + 1}
    /\ UNCHANGED <<op, restVars, envVars, geVars, svpVars, ingVars, leVars, asmVars, ivVars,
                   memoryClient, isProcessing, aiFilterCache, handlers, mailWrites, crm>>

\* GET messages?$filter=isRead eq false: the unread messages, oldest first
RECURSIVE Ascending(_)
Ascending(S) ==
    IF S = {} THEN <<>>
    ELSE LET least == CHOOSE x \in S : \A y \in S : x <= y
         IN <<least>> \o Ascending(S \ {least})
GetUnreadMessages == Ascending(unread)

(***************************************************************************)
(* InboxScoutAgent.passesRuleBasedFilter                                   *)
(***************************************************************************)
noReplyPatterns ==
    {"noreply", "no-reply", "automated", "donotreply", "mailer-daemon", "postmaster",
     "notification", "no_reply", "do-not-reply", "do_not_reply", "mailerdaemon",
     "autoreply", "auto-reply"}
autoReplyPatterns ==
    {"auto-reply", "out of office", "vacation", "away", "delivery status notification",
     "mail delivery system", "read receipt", "delivery receipt", "undeliverable",
     "failure notice", "bounce", "failed delivery"}
bulkMailingPatterns ==
    {"newsletter", "unsubscribe", "mailing list", "marketing", "promotional",
     "special offer", "limited time", "view in browser", "update preferences",
     "manage subscription"}

passesRuleBasedFilter(message) ==
    /\ noReplyPatterns \cap message.includes.address = {}
    /\ autoReplyPatterns \cap (message.includes.subject \cup message.includes.body) = {}
    /\ bulkMailingPatterns \cap (message.includes.subject \cup message.includes.body) = {}

(***************************************************************************)
(* InboxScoutAgent.aiFilterCache: a Map keeps its entries in the order in  *)
(* which their keys were first set.                                        *)
(***************************************************************************)
cacheCeiling == 1000

\* `${message.from.emailAddress.address}_${message.subject.substring(0, 50)}`
CacheKey(message) == <<message.from, Prefix(message.subject, 50)>>
CacheEntry(key, value) == [key |-> key, value |-> value]

CacheHas(cache, key) == \E k \in DOMAIN cache : cache[k].key = key
CacheGet(cache, key) == cache[CHOOSE k \in DOMAIN cache : cache[k].key = key].value
CacheDelete(cache, key) == SelectSeq(cache, LAMBDA e : e.key # key)
CacheSet(cache, key, value) ==
    IF CacheHas(cache, key)
      THEN [k \in DOMAIN cache |->
               IF cache[k].key = key THEN CacheEntry(key, value) ELSE cache[k]]
      ELSE Append(cache, CacheEntry(key, value))

\* if (this.aiFilterCache.size > 1000) delete this.aiFilterCache.keys().next().value
Evict(cache) ==
    IF Len(cache) > cacheCeiling THEN CacheDelete(cache, cache[1].key) ELSE cache

\* the result is cached
CacheResult(cache, key, shouldReply) == CacheSet(Evict(cache), key, shouldReply)

(***************************************************************************)
(* InboxScoutAgent: the cron job and POST /process-emails.  Every tick and *)
(* every request is a handler of its own, with its own locals.             *)
(***************************************************************************)
Handler(kind) ==
    [kind |-> kind,
     pc |-> "start",            \* "skipped" | "fetching" | "processing" | "done"
     status |-> 0,              \* the response of POST /process-emails
     unreadMessages |-> <<>>,
     k |-> 0,                   \* the message the loop is at
     pm |-> "idle",             \* the await processMessage is at
     contextText |-> "",
     voiceGuidance |-> "",
     draftReply |-> "",
     results |-> <<>>,          \* what processMessage gave for each message
     errors |-> {}]             \* what console.error has logged

MessageId(h) == h.unreadMessages[h.k]
Message(h) == EmailMessage(MessageId(h))

Running == {n \in DOMAIN handlers : handlers[n].pc \in {"fetching", "processing"}}

\* how many triggers and failures a behaviour sees
TriggerBudget == IF op = "filter" THEN 1 ELSE MaxTriggers
AgentFails == failures < FailureBudget /\ failures' = failures + 1

\* if (this.isProcessing) / if (!this.isProcessing)
IsBusyIgnored == FALSE
IsBusy == isProcessing

\* processUnreadEmails, up to the await of getUnreadMessages
ProcessUnreadEmails(h) == [h EXCEPT !.pc = "fetching"]

\* a cron tick / a POST /process-emails arrives
Trigger(kind) ==
    /\ op \in {"agent", "filter"}
    /\ Len(handlers) < TriggerBudget
    /\ IF IsBusy
         THEN /\ handlers' = Append(handlers,
                    [Handler(kind) EXCEPT !.pc = "skipped",
                                          !.status = IF kind = "manual" THEN 409 ELSE 0])
              /\ UNCHANGED isProcessing
         ELSE /\ isProcessing' = TRUE
              /\ handlers' = Append(handlers, ProcessUnreadEmails(Handler(kind)))
    /\ UNCHANGED <<op, restVars, envVars, geVars, svpVars, ingVars, leVars, asmVars, ivVars,
                   memoryClient, aiFilterCache, arrived, unread, mailWrites, crm>>

CronTick == Trigger("cron")
PostProcessEmails == Trigger("manual")

\* the finally block, and the response of the manual trigger
Finally(h) ==
    [h EXCEPT !.pc = "done", !.pm = "idle",
              !.status = IF h.kind = "manual" THEN 200 ELSE 0]

\* processMessage(message.id), up to the await of getMessage
ProcessMessage(h) ==
    [h EXCEPT !.pc = "processing", !.pm = "getMessage",
              !.contextText = "", !.voiceGuidance = "", !.draftReply = ""]

\* for (const message of unreadMessages): the next pass, or the end
NextPass(h) ==
    IF h.k < Len(h.unreadMessages)
      THEN ProcessMessage([h EXCEPT !.k = @ + 1])
      ELSE Finally(h)

\* processMessage returns a result / throws into the catch of the loop
PmReturn(h, result) ==
    NextPass([h EXCEPT !.results = Append(@, [id |-> MessageId(h), result |-> result]),
                       !.contextText = "", !.voiceGuidance = "", !.draftReply = ""])
PmThrowEndsTheRun(h) ==
    Finally([h EXCEPT !.errors = @ \cup {"Error processing email"},
                      !.results = Append(@, [id |-> MessageId(h), result |-> "thrown"])])
PmThrow(h) ==
    PmReturn([h EXCEPT !.errors = @ \cup {"Error processing email"}], "thrown")

\* finally { this.isProcessing = false; }: the flag once handler h has gone on
ReleasedAtEndOfTry(h) ==
    IF h.pc = "done" /\ "Error processing unread emails" \notin h.errors
      THEN FALSE ELSE isProcessing
ReleasedInFinally(h) == IF h.pc = "done" THEN FALSE ELSE isProcessing

\* handler n goes on as h; the finally block releases the flag
Resume(n, h) ==
    /\ handlers' = [handlers EXCEPT ![n] = h]
    /\ isProcessing' = ReleasedInFinally(h)

\* what the steps of the agent leave alone
memVars == <<restVars, now, drift, inflight, voice, geVars, svpVars, ingVars, leVars,
             queries, srVars, bcVars, gvVars, ivVars>>

\* getUnreadMessages resolves or rejects
PuFetched(n) ==
    /\ handlers[n].pc = "fetching"
    /\ \/ /\ Resume(n, NextPass([handlers[n] EXCEPT !.unreadMessages = GetUnreadMessages]))
          /\ UNCHANGED failures
       \/ /\ AgentFails
          /\ Resume(n, Finally([handlers[n] EXCEPT
                                   !.errors = @ \cup {"Error processing unread emails"}]))
    /\ UNCHANGED <<op, memVars, conversations, memoryClient, aiFilterCache,
                   arrived, unread, mailWrites, crm>>

\* findOrCreateContact is called: the message needs a reply
FindOrCreateContact(h) == [h EXCEPT !.pm = "contact"]

\* getMessage resolves or rejects; then shouldReplyToMessage, up to the AI call
PmGetMessage(n) ==
    LET h == handlers[n]
        key == CacheKey(Message(h))
    IN /\ h.pc = "processing" /\ h.pm = "getMessage"
       /\ \/ /\ Resume(n, IF ~passesRuleBasedFilter(Message(h))
                            THEN PmReturn(h, "null")
                          ELSE IF CacheHas(aiFilterCache, key)
                            THEN IF CacheGet(aiFilterCache, key)
                                   THEN FindOrCreateContact(h)
                                   ELSE PmReturn(h, "null")
                          ELSE [h EXCEPT !.pm = "aiFilter"])
             /\ UNCHANGED failures
          \/ /\ AgentFails
             /\ Resume(n, PmThrow(h))
       /\ UNCHANGED <<op, memVars, conversations, memoryClient, aiFilterCache,
                      arrived, unread, mailWrites, crm>>

\* catch (error) { console.error(...); return true; }: nothing is cached
AiFilterCatchCachesTrue(cache, key) == CacheResult(cache, key, TRUE)
AiFilterCatch(cache, key) == cache

\* shouldAmyReplyToEmail: the completion arrives (YES or NO), or the call fails
PmAiFilter(n) ==
    LET h == handlers[n]
        key == CacheKey(Message(h))
    IN /\ h.pc = "processing" /\ h.pm = "aiFilter"
       /\ \/ \E shouldReply \in BOOLEAN :
                /\ aiFilterCache' = CacheResult(aiFilterCache, key, shouldReply)
                /\ Resume(n, IF shouldReply THEN FindOrCreateContact(h)
                                            ELSE PmReturn(h, "null"))
                /\ UNCHANGED failures
          \/ /\ AgentFails
             /\ Resume(n, FindOrCreateContact(
                    [h EXCEPT !.errors = @ \cup {"Error in AI-based email filtering"}]))
             /\ aiFilterCache' = AiFilterCatch(aiFilterCache, key)
       /\ UNCHANGED <<op, memVars, conversations, memoryClient,
                      arrived, unread, mailWrites, crm>>

\* the CRM: contacts are found or created, drafts and interactions are added
CrmRecord(db, key) == [db |-> db, key |-> key]
CrmCreate(records, db, key) == Append(records, CrmRecord(db, key))
CrmFindOrCreate(records, db, key) ==
    IF \E k \in DOMAIN records : records[k].db = db /\ records[k].key = key
      THEN records
      ELSE CrmCreate(records, db, key)

\* findOrCreateContact resolves or rejects; then the memory client, if any
PmContact(n) ==
    LET h == handlers[n]
    IN /\ h.pc = "processing" /\ h.pm = "contact"
       /\ \/ /\ crm' = CrmFindOrCreate(crm, "contacts", Message(h).from)
             /\ Resume(n, [h EXCEPT !.pm = IF memoryClient THEN "context" ELSE "draftReply"])
             /\ UNCHANGED failures
          \/ /\ AgentFails
             /\ Resume(n, PmThrow(h))
             /\ UNCHANGED crm
       /\ UNCHANGED <<op, memVars, conversations, memoryClient, aiFilterCache,
                      arrived, unread, mailWrites>>

\* catch (error) { console.error('Error retrieving memory context:', error); }
MemoryContextRethrow(h) == PmThrow(h)
MemoryContextCatch(h) ==
    [h EXCEPT !.errors = @ \cup {"Error retrieving memory context"}, !.pm = "draftReply"]

\* buildContextForDraft resolves with a string, or rejects
PmContext(n) ==
    LET h == handlers[n]
    IN /\ h.pc = "processing" /\ h.pm = "context"
       /\ \/ /\ \E text \in {"", "context"} :
                   Resume(n, [h EXCEPT !.contextText = text, !.pm = "guidance"])
             /\ UNCHANGED failures
          \/ /\ AgentFails
             /\ Resume(n, MemoryContextCatch(h))
       /\ UNCHANGED <<op, memVars, conversations, memoryClient, aiFilterCache,
                      arrived, unread, mailWrites, crm>>

\* getVoiceGuidance resolves with a string, or rejects
PmGuidance(n) ==
    LET h == handlers[n]
    IN /\ h.pc = "processing" /\ h.pm = "guidance"
       /\ \/ /\ \E text \in {"", "guidance"} :
                   Resume(n, [h EXCEPT !.voiceGuidance = text, !.pm = "draftReply"])
             /\ UNCHANGED failures
          \/ /\ AgentFails
             /\ Resume(n, MemoryContextCatch(h))
       /\ UNCHANGED <<op, memVars, conversations, memoryClient, aiFilterCache,
                      arrived, unread, mailWrites, crm>>

\* generateDraftReply: the completion, or the fallback text of its catch
PmDraftReply(n) ==
    LET h == handlers[n]
    IN /\ h.pc = "processing" /\ h.pm = "draftReply"
       /\ \/ /\ Resume(n, [h EXCEPT !.draftReply = "reply", !.pm = "createReplyDraft"])
             /\ UNCHANGED failures
          \/ /\ AgentFails
             /\ Resume(n, [h EXCEPT !.draftReply = "fallback", !.pm = "createReplyDraft",
                                    !.errors = @ \cup {"Error generating draft reply"}])
       /\ UNCHANGED <<op, memVars, conversations, memoryClient, aiFilterCache,
                      arrived, unread, mailWrites, crm>>

\* a write through the mail client
MailWrite(call, messageId) == [call |-> call, messageId |-> messageId]

\* this.outlookClient.createReplyDraft(messageId, draftReply.text): the one
\* mail-side write of processMessage
SendsTheReply(messageId) == MailWrite("sendMail", messageId)
CreatesReplyDraft(messageId) == MailWrite("createReply", messageId)

\* createReplyDraft resolves (the draft exists) or rejects
PmCreateReplyDraft(n) ==
    LET h == handlers[n]
    IN /\ h.pc = "processing" /\ h.pm = "createReplyDraft"
       /\ \/ /\ mailWrites' = Append(mailWrites, CreatesReplyDraft(MessageId(h)))
             /\ Resume(n, [h EXCEPT !.pm = "createDraft"])
             /\ UNCHANGED failures
          \/ /\ AgentFails
             /\ Resume(n, PmThrow(h))
             /\ UNCHANGED mailWrites
       /\ UNCHANGED <<op, memVars, conversations, memoryClient, aiFilterCache,
                      arrived, unread, crm>>

\* notionClient.createDraft resolves or rejects
PmCreateDraft(n) ==
    LET h == handlers[n]
    IN /\ h.pc = "processing" /\ h.pm = "createDraft"
       /\ \/ /\ crm' = CrmCreate(crm, "drafts", MessageId(h))
             /\ Resume(n, [h EXCEPT !.pm = "createInteraction"])
             /\ UNCHANGED failures
          \/ /\ AgentFails
             /\ Resume(n, PmThrow(h))
             /\ UNCHANGED crm
       /\ UNCHANGED <<op, memVars, conversations, memoryClient, aiFilterCache,
                      arrived, unread, mailWrites>>

\* notionClient.createInteraction resolves or rejects; then storeConversation,
\* if there is a memory client
PmCreateInteraction(n) ==
    LET h == handlers[n]
    IN /\ h.pc = "processing" /\ h.pm = "createInteraction"
       /\ \/ /\ crm' = CrmCreate(crm, "interactions", MessageId(h))
             /\ Resume(n, IF memoryClient THEN [h EXCEPT !.pm = "storeConversation"]
                                          ELSE PmReturn(h, "draft"))
             /\ UNCHANGED failures
          \/ /\ AgentFails
             /\ Resume(n, PmThrow(h))
             /\ UNCHANGED crm
       /\ UNCHANGED <<op, memVars, conversations, memoryClient, aiFilterCache,
                      arrived, unread, mailWrites>>

\* catch (error) { console.error('Error storing conversation:', error); }
StoreConversationCatch(h) ==
    PmReturn([h EXCEPT !.errors = @ \cup {"Error storing conversation"}], "draft")

\* storeConversation resolves (the record is upserted) or rejects
PmStoreConversation(n) ==
    LET h == handlers[n]
    IN /\ h.pc = "processing" /\ h.pm = "storeConversation"
       /\ \/ /\ conversations' = Upsert(conversations,
                    ConversationRecord(MessageId(h), Message(h).from, Message(h).body))
             /\ Resume(n, PmReturn(h, "draft"))
             /\ UNCHANGED failures
          \/ /\ AgentFails
             /\ Resume(n, StoreConversationCatch(h))
             /\ UNCHANGED conversations
       /\ UNCHANGED <<op, memVars, memoryClient, aiFilterCache,
                      arrived, unread, mailWrites, crm>>

GetUnreadMessagesSettles == \E n \in DOMAIN handlers : PuFetched(n)
GetMessageSettles == \E n \in DOMAIN handlers : PmGetMessage(n)
AiFilterSettles == \E n \in DOMAIN handlers : PmAiFilter(n)
FindOrCreateContactSettles == \E n \in DOMAIN handlers : PmContact(n)
BuildContextSettles == \E n \in DOMAIN handlers : PmContext(n)
VoiceGuidanceSettles == \E n \in DOMAIN handlers : PmGuidance(n)
DraftReplySettles == \E n \in DOMAIN handlers : PmDraftReply(n)
CreateReplyDraftSettles == \E n \in DOMAIN handlers : PmCreateReplyDraft(n)
CreateDraftSettles == \E n \in DOMAIN handlers : PmCreateDraft(n)
CreateInteractionSettles == \E n \in DOMAIN handlers : PmCreateInteraction(n)
StoreConversationSettles == \E n \in DOMAIN handlers : PmStoreConversation(n)


(***************************************************************************)
(* Initial states and specifications.                                      *)
(***************************************************************************)
InitIdle ==
    /\ now = 0 /\ drift = 0 /\ failures = 0 /\ inflight = {}
    /\ gePc = "idle" /\ geText = NoText /\ retryCount = 0 /\ geWait = 0
    /\ geResult = NoResult /\ geLog = <<>>
    /\ svpPc = "idle" /\ svpPattern = NoPattern /\ svpRecord = NoRecord
    /\ svpError = NoError
    /\ ingPc = "idle" /\ posts = <<>> /\ i = 0 /\ successCount = 0
    /\ errorCount = 0 /\ ingError = NoError /\ ingRuns = 0
    /\ lePc = "idle" /\ draftText = <<>> /\ sentText = <<>> /\ lePatterns = <<>>
    /\ leK = 0 /\ leError = NoError
    /\ scPc = "idle" /\ scContext = NoContext /\ scCalls = 0 /\ scDone = <<>>
    /\ scRecord = ConversationRecord(0, "", NoText)
    /\ styPc = "idle" /\ styleChanges = <<>>
    /\ tonePc = "idle" /\ toneSliders = NoSliders
    /\ startPc = "down" /\ starts = 0 /\ startLog = <<>>
    /\ tokPc = "idle" /\ minute = StartMinute /\ accessToken = NoToken
    /\ tokenExpiry = 0 /\ expiresOn = NoDate /\ acquired = 0 /\ tokResult = NoTokenResult
    /\ srPc = "idle" /\ srFn = "" /\ srQuery = NoQuery /\ srResult = <<>>
    /\ bcPc = "idle" /\ contactEmail = "" /\ currentEmailBody = NoText
    /\ history = <<>> /\ relevantContext = <<>> /\ context = <<>>
    /\ gvPc = "idle" /\ emailContext = NoText /\ relevantLinkedInContent = <<>>
    /\ patterns = <<>> /\ guidance = <<>>
    /\ ivPc = "idle" /\ items = <<>> /\ vectors = <<>> /\ ivError = NoError
    /\ isProcessing = FALSE /\ handlers = <<>>
    /\ mailWrites = <<>> /\ crm = <<>>

\* the mailbox when the process starts
NothingArrived == arrived = 0 /\ unread = {Newsletter}

\* no edit is analysed
NoEdit == original = NoMail /\ edited = NoMail
\* no corpus is analysed
NoCorpus == allText = NoToneText
\* the inputs of the operations a behaviour does not exercise
NoInputs == NoEdit /\ NoCorpus

\* a process that is not the agent
AgentAbsent == memoryClient = FALSE /\ aiFilterCache = <<>> /\ NothingArrived
NoAgent == AgentAbsent /\ NoInputs

GeNext == GeCreateOk \/ GeCreateFails \/ GeRetry
SvpNext == SvpUpsert \/ SvpEmbeddingThrew \/ SvpUpsertOk \/ SvpUpsertFails

EmptyStore == voice = {} /\ conversations = {}
NoQueries == queries = <<>>

\* one call of generateEmbedding
InitEmbed == op = "embed" /\ InitIdle /\ EmptyStore /\ NoQueries /\ NoAgent
NextEmbed == EmbedCall \/ GeNext
SpecEmbed == InitEmbed /\ [][NextEmbed]_vars

\* one call of ingestLinkedInContent
InitIngest == op = "ingest" /\ InitIdle /\ EmptyStore /\ NoQueries /\ NoAgent
NextIngest ==
    \/ IngestLinkedInContent \/ IngStored \/ IngThrew \/ IngAfterPost \/ IngAfterError
    \/ SvpNext \/ GeNext
SpecIngest == InitIngest /\ [][NextIngest]_vars

\* one context assembly: buildContextForDraft or getVoiceGuidance, over a store
\* that earlier storeConversation / storeVoicePattern calls have filled
StoredConversations ==
    {ConversationRecord(n, ContactA, Text(100 + n, 150 * n)) : n \in 1..MaxConversations}
        \cup {ConversationRecord(0, ContactB, Text(100, 400))}
StoredPatterns ==
    {VoiceRecord(LinkedInPattern(Text(1, 250)), Embedding(Text(1, 250)), 1000),
     VoiceRecord(LinkedInPattern(Text(2, 40)), Embedding(Text(2, 40)), 2000),
     VoiceRecord(VoicePattern(Text(3, 20), 1, "draft-1", "edit"), Embedding(Text(3, 20)), 3000)}

InitContext ==
    /\ op = "context" /\ InitIdle
    /\ voice = {}
    /\ conversations \in SUBSET StoredConversations
    /\ queries = [q \in {"history", "relevant"} |-> "notStarted"]
    /\ NoAgent
InitGuidance ==
    /\ op = "guidance" /\ InitIdle
    /\ voice \in SUBSET StoredPatterns
    /\ conversations = {}
    /\ queries = [q \in {"linkedin", "patterns"} |-> "notStarted"]
    /\ NoAgent
InitAssemble == InitContext \/ InitGuidance
SrNext == SrQuery \/ SrEmbeddingThrew \/ SrQueryOk \/ SrQueryFails
NextAssemble ==
    \/ BuildContextForDraft \/ BcHistory \/ BcRelevant
    \/ GetVoiceGuidance \/ GvLinkedInQuery \/ GvLinkedInOk \/ GvLinkedInFails \/ GvPatterns
    \/ SrNext \/ GeNext
SpecAssemble == InitAssemble /\ [][NextAssemble]_vars

\* one call of PineconeMemoryClient.indexVoice
InitIndexVoice == op = "indexVoice" /\ InitIdle /\ EmptyStore /\ NoQueries /\ NoAgent
NextIndexVoice ==
    IndexVoice \/ IvEmbeddingArrives \/ IvEmbeddingFails \/ IvUpsertOk \/ IvUpsertFails
SpecIndexVoice == InitIndexVoice /\ [][NextIndexVoice]_vars

\* one call of learnFromEdit
InitLearn == op = "learn" /\ InitIdle /\ EmptyStore /\ NoQueries /\ NoAgent
NextLearn == LearnFromEdit \/ LeStored \/ LeThrew \/ SvpNext \/ GeNext
SpecLearn == InitLearn /\ [][NextLearn]_vars

\* storeConversation called several times, one call after the other
InitStore == op = "store" /\ InitIdle /\ EmptyStore /\ NoQueries /\ NoAgent
NextStore == StoreConversation \/ ScNext \/ GeNext
SpecStore == InitStore /\ [][NextStore]_vars

\* analyzeStyleChanges applied to a draft and the mail that was sent
InitStyle ==
    /\ op = "style" /\ InitIdle /\ EmptyStore /\ NoQueries /\ AgentAbsent /\ NoCorpus
    /\ original \in Mails /\ edited \in Mails
SpecStyle == InitStyle /\ [][AnalyzeStyleChanges]_vars

\* analyzeTone applied to the text of a corpus
InitTone ==
    /\ op = "tone" /\ InitIdle /\ EmptyStore /\ NoQueries /\ AgentAbsent /\ NoEdit
    /\ allText \in ToneTexts
SpecTone == InitTone /\ [][AnalyzeTone]_vars

\* the agent's process is started, and later started again
InitStartup ==
    /\ op = "startup" /\ InitIdle /\ EmptyStore /\ NoQueries /\ NoInputs
    /\ memoryClient = TRUE /\ aiFilterCache = <<>> /\ NothingArrived
NextStartup ==
    \/ ProcessStart \/ HasLinkedInDataSettles \/ StartIngestion \/ IngestionSettles
    \/ IngStored \/ IngThrew \/ IngAfterPost \/ IngAfterError \/ SvpNext \/ GeNext
SpecStartup == InitStartup /\ [][NextStartup]_vars

\* the Outlook client asks for its access token again and again
InitToken ==
    /\ op = "token" /\ InitIdle /\ EmptyStore /\ NoQueries /\ NoAgent
NextToken == GetAccessToken \/ AcquireTokenResolves \/ AcquireTokenFails \/ MinutePasses
SpecToken == InitToken /\ [][NextToken]_vars

\* ingestLinkedInContent called twice with the same corpus
InitReingest == op = "reingest" /\ InitIdle /\ EmptyStore /\ NoQueries /\ NoAgent
NextReingest ==
    \/ IngestSameCorpus \/ IngStored \/ IngThrew \/ IngAfterPost \/ IngAfterError
    \/ SvpNext \/ GeNext
SpecReingest == InitReingest /\ [][NextReingest]_vars

\* the agent service: cron ticks and manual triggers over a mailbox
AgentNext ==
    \/ CronTick \/ PostProcessEmails
    \/ GetUnreadMessagesSettles \/ GetMessageSettles \/ AiFilterSettles
    \/ FindOrCreateContactSettles \/ BuildContextSettles \/ VoiceGuidanceSettles
    \/ DraftReplySettles \/ CreateReplyDraftSettles \/ CreateDraftSettles
    \/ CreateInteractionSettles \/ StoreConversationSettles
InitAgent ==
    /\ op = "agent" /\ InitIdle /\ EmptyStore /\ NoQueries /\ NoInputs
    /\ memoryClient \in BOOLEAN
    /\ aiFilterCache = <<>>
    /\ NothingArrived
NextAgent == MailArrives \/ AgentNext
SpecAgent == InitAgent /\ [][NextAgent]_vars

\* one run of the agent whose should-respond cache earlier runs have filled
\* up to its ceiling, over a mailbox in which every message has arrived
EarlierKey(n) == <<ContactA, Text(1000 + n, 50)>>
FilledCache(n) == [k \in 1..n |-> CacheEntry(EarlierKey(k), TRUE)]
InitFilter ==
    /\ op = "filter" /\ InitIdle /\ EmptyStore /\ NoQueries /\ NoInputs
    /\ arrived = MaxMessages /\ unread = 0..MaxMessages
    /\ memoryClient \in BOOLEAN
    /\ aiFilterCache \in {FilledCache(cacheCeiling - 1), FilledCache(cacheCeiling)}
SpecFilter == InitFilter /\ [][AgentNext]_vars

Init ==
    \/ InitEmbed \/ InitIngest \/ InitAssemble \/ InitIndexVoice \/ InitAgent \/ InitFilter
    \/ InitLearn \/ InitReingest \/ InitStore \/ InitStyle \/ InitTone \/ InitStartup
    \/ InitToken
Next ==
    \/ EmbedCall \/ GeNext
    \/ IngestLinkedInContent \/ IngStored \/ IngThrew \/ IngAfterPost \/ IngAfterError
    \/ SvpNext
    \/ BuildContextForDraft \/ BcHistory \/ BcRelevant
    \/ GetVoiceGuidance \/ GvLinkedInQuery \/ GvLinkedInOk \/ GvLinkedInFails \/ GvPatterns
    \/ SrNext
    \/ IndexVoice \/ IvEmbeddingArrives \/ IvEmbeddingFails \/ IvUpsertOk \/ IvUpsertFails
    \/ MailArrives \/ AgentNext
    \/ LearnFromEdit \/ LeStored \/ LeThrew \/ IngestSameCorpus
    \/ StoreConversation \/ ScNext
    \/ AnalyzeStyleChanges \/ AnalyzeTone
    \/ ProcessStart \/ HasLinkedInDataSettles \/ StartIngestion \/ IngestionSettles
    \/ GetAccessToken \/ AcquireTokenResolves \/ AcquireTokenFails \/ MinutePasses
Spec == Init /\ [][Next]_vars

(***************************************************************************)
(* generateEmbedding: the retry policy                                     *)
(***************************************************************************)
Events(kind) == SelectSeq(geLog, LAMBDA e : e.ev = kind)
Called == gePc # "idle"
QuotaKind(error) == error.code = "insufficient_quota" \/ error.status = 429

\* C1: one generateEmbedding call makes at most 3 provider requests and
\* ends: it returns the embedding of the first request that succeeds, or
\* throws the third request's error once the third request has failed; there
\* is no fourth request.  Every step of the call lengthens its bounded log.
C1_Outcome ==
    /\ Len(Events("request")) <= 3
    /\ Len(geLog) <= 9
    /\ gePc = "awaitCreate" => Len(Events("request")) = Len(Events("fail")) + 1
    /\ gePc = "returned" =>
         /\ geLog[Len(geLog)].ev = "ok"
         /\ Len(Events("ok")) = 1
         /\ Len(Events("request")) = Len(Events("fail")) + 1
         /\ geResult = Returned(geText)
    /\ gePc = "thrown" =>
         /\ Len(Events("request")) = 3
         /\ Len(Events("fail")) = 3
         /\ Len(Events("ok")) = 0
         /\ geLog[Len(geLog)].ev = "fail"
         /\ geResult = Thrown(geLog[Len(geLog)].error)
C1_AtMostThreeRequests ==
    /\ [](Called => C1_Outcome)
    /\ [][Called => (Len(geLog') > Len(geLog) /\ gePc # "returned" /\ gePc # "thrown")]_geVars

\* three failed requests, of both kinds, and the third error thrown
C1_Witness ==
    /\ gePc = "thrown"
    /\ Len(Events("request")) = 3
    /\ geLog[2].error = TransientFailure
    /\ geResult.error = QuotaExceeded

\* C2: the wait before the n-th retry is 60 * 2^(n-1) seconds after a quota
\* or rate-limit failure and n seconds after any other failure, and the retry
\* is not sent earlier; quota errors on attempts 1 and 2 and a success on
\* attempt 3 give the embedding, after waits of at least 60 s and 120 s.
WaitsUpTo(k) == Len(SelectSeq(SubSeq(geLog, 1, k), LAMBDA e : e.ev = "wait"))
C2_BackoffSchedule ==
    /\ \A k \in 1..Len(geLog) :
         geLog[k].ev = "wait" =>
            /\ geLog[k - 1].ev = "fail"
            /\ geLog[k].ms = IF QuotaKind(geLog[k - 1].error)
                               THEN 60 * 1000 * Pow2(WaitsUpTo(k) - 1)
                               ELSE WaitsUpTo(k) * 1000
            /\ k < Len(geLog) =>
                 /\ geLog[k + 1].ev = "request"
                 /\ geLog[k + 1].at - geLog[k].at >= geLog[k].ms
    /\ \A k \in 2..Len(geLog) : geLog[k].ev = "request" => geLog[k - 1].ev = "wait"
    /\ Len(Events("wait")) <= 2
    /\ ( /\ Len(Events("fail")) = 2
         /\ \A k \in 1..2 : QuotaKind(Events("fail")[k].error)
         /\ Len(Events("ok")) = 1 ) =>
            /\ gePc = "returned"
            /\ geResult = Returned(geText)
            /\ Events("request")[2].at - Events("fail")[1].at >= 60 * 1000
            /\ Events("request")[3].at - Events("fail")[2].at >= 120 * 1000

\* quota errors on attempts 1 and 2, success on attempt 3
C2_Witness ==
    /\ gePc = "returned"
    /\ Len(Events("fail")) = 2
    /\ \A k \in 1..2 : Events("fail")[k].error = QuotaExceeded
    /\ geLog[Len(geLog)].at >= 180 * 1000

\* C3: with empty text the adapter fails at once with InvalidInput: no
\* provider request, no wait, no retry.
C3_EmptyTextRejected ==
    (Called /\ geText = EmptyText) =>
        /\ Len(Events("request")) = 0
        /\ Len(Events("wait")) = 0
        /\ gePc = "thrown"
        /\ geResult.error.code = "InvalidInput"

(***************************************************************************)
(* ingestLinkedInContent: what an error does to the batch                  *)
(***************************************************************************)
StoredPosts == {r \in voice : r.source = "linkedin"}

\* C4: a quota error on a document stops the batch at once: the call ends
\* with that error, no later document is attempted, and successCount is the
\* number of documents stored before it.  Five documents, quota error on the
\* third: 2 successes, documents 4 and 5 never attempted.
C4_Aborted ==
    ingPc = "thrown" =>
        /\ QuotaKind(ingError)
        /\ i < Len(posts)
        /\ successCount = Cardinality(StoredPosts)
        /\ \A r \in StoredPosts : r.pattern.id <= i
        /\ successCount + errorCount = i + 1
        /\ svpPc = "idle" /\ gePc = "idle" /\ inflight = {}
C4_QuotaStopsBatch ==
    /\ []C4_Aborted
    /\ [][(ingPc = "storing" /\ svpPc = "thrown" /\ QuotaKind(svpError)) =>
            (ingPc' = "thrown" /\ ingError' = svpError /\ i' = i
             /\ successCount' = successCount /\ voice' = voice)]_vars
    /\ [][ingPc = "thrown" => UNCHANGED vars]_vars

\* five documents, the third one's embedding runs out of quota
C4_Witness ==
    /\ ingPc = "thrown"
    /\ Len(posts) = 5
    /\ i = 2
    /\ ingError = QuotaExceeded
    /\ successCount = 2
    /\ {r.pattern.id : r \in StoredPosts} = {1, 2}

C6_OneRequestAtATime ==
    /\ Cardinality(inflight) <= 1
    /\ op = "ingest" =>
         \A r \in inflight : ingPc = "storing" /\ r.text = posts[i + 1]
    /\ op = "indexVoice" =>
         \A r \in inflight : \A k \in 1..(r.who - 1) : vectors[k] # NoVector

(***************************************************************************)
(* The context assembly                                                    *)
(***************************************************************************)
Failed == {q \in DOMAIN queries : queries[q] = "failed"}
HasSettled(q) == queries[q] \in {"ok", "failed"}
Quoted(string, kind) == {string[k].id : k \in {j \in DOMAIN string : string[j].kind = kind}}
Ids(results) == {results[k].id : k \in DOMAIN results}

\* C7: buildContextForDraft and getVoiceGuidance never throw: whatever fails,
\* each returns a string, the one built from the results of the queries that
\* succeeded, or the empty string.
C7_AssemblyNeverRaises ==
    /\ bcPc # "thrown"
    /\ gvPc # "thrown"
    /\ bcPc = "returned" =>
         /\ context = BuildContext(history, relevantContext)
         /\ queries["history"] = "failed" => history = <<>>
         /\ queries["relevant"] = "failed" => relevantContext = <<>>
    /\ gvPc = "returned" =>
         /\ guidance \in {<<>>, BuildGuidance(relevantLinkedInContent, patterns)}
         /\ queries["patterns"] = "failed" => patterns = <<>>
    /\ (op = "guidance" /\ gvPc # "returned") => queries["linkedin"] # "failed"
    /\ (op = "context" /\ bcPc # "returned" /\ \A q \in DOMAIN queries : HasSettled(q)) =>
         srPc = "returned"

\* the embedding of the mail text failed three times; '' came back
C7_Witness ==
    /\ gvPc = "returned"
    /\ queries["linkedin"] = "failed"
    /\ failures = 3
    /\ guidance = <<>>

\* C8: when exactly one query of the assembly fails, only its section is
\* empty: every section whose query succeeded with results is in the output.
\* If the linkedin query fails and the general voice-pattern query succeeds
\* (the store holds patterns and nothing else fails), the common-patterns
\* section is returned.
C8_OtherSectionsSurvive ==
    /\ (bcPc = "returned" /\ Failed = {"history"} /\ relevantContext # <<>>) =>
          /\ "RelevantHeader" \in Kinds(context)
          /\ Quoted(context, "RelevantItem") = Ids(relevantContext)
    /\ (bcPc = "returned" /\ Failed = {"relevant"} /\ history # <<>>) =>
          /\ "PastHeader" \in Kinds(context)
          /\ Quoted(context, "PastItem") = Ids(history)
    /\ (gvPc = "returned" /\ Failed = {"patterns"} /\ relevantLinkedInContent # <<>>) =>
          "ExamplesHeader" \in Kinds(guidance)
    /\ (gvPc = "returned" /\ Failed = {"linkedin"} /\ voice # {}) =>
          "PatternsHeader" \in Kinds(guidance)

\* C9: the assembler issues its queries concurrently and merges after all of
\* them have settled: every query is started before any has completed, and
\* nothing is merged before the last one has succeeded or failed.
Issued ==
    IF op = "context" THEN {"history", "relevant"}
    ELSE IF op = "guidance"
           THEN IF emailContext.len > 0 THEN {"linkedin", "patterns"} ELSE {"patterns"}
           ELSE {}
C9_QueriesConcurrent ==
    /\ (\E q \in Issued : HasSettled(q)) => \A q \in Issued : queries[q] # "notStarted"
    /\ (context # <<>> \/ guidance # <<>>) => \A q \in Issued : HasSettled(q)

\* C10: no record id quoted in the past-conversations section is quoted
\* again in the relevant-context section, wherever it stands in the history.
C10_NoRecordQuotedTwice ==
    bcPc = "returned" =>
        Quoted(context, "PastItem") \cap Quoted(context, "RelevantItem") = {}

\* C11: a context assembled for a contact quotes only conversation records
\* of that contact: the history holds at most 3 records and the relevant
\* context at most 2, each with its sender equal to the contact given to
\* buildContextForDraft, and every record quoted in the returned string is a
\* stored record of that contact, whatever other contacts' records are stored.
FromContact(results) == \A k \in DOMAIN results : results[k].metadata.from = contactEmail
C11_OnlyTheContactsRecords ==
    /\ Len(history) <= 3 /\ FromContact(history)
    /\ Len(relevantContext) <= 2 /\ FromContact(relevantContext)
    /\ (srPc = "returned" /\ srFn \in {"history", "relevant"}) => FromContact(srResult)
    /\ bcPc = "returned" =>
         /\ Cardinality(Quoted(context, "PastItem")) <= 3
         /\ Cardinality(Quoted(context, "RelevantItem")) <= 2
         /\ \A id \in Quoted(context, "PastItem") \cup Quoted(context, "RelevantItem") :
              \E r \in conversations : r.id = id /\ r.from = contactEmail

\* the other contact has a record in the store; 3 and 2 records are quoted
C11_Witness ==
    /\ bcPc = "returned"
    /\ \E r \in conversations : r.from # contactEmail
    /\ Len(history) = 3
    /\ Len(relevantContext) = 2
    /\ Quoted(context, "RelevantItem") # {}

(***************************************************************************)
(* The agent service                                                       *)
(***************************************************************************)
Last(seq) == seq[Len(seq)]
MemoryCalls == {"context", "guidance", "storeConversation"}
MailAndCrmCalls ==
    {"getMessage", "contact", "createReplyDraft", "createDraft", "createInteraction"}
Gave(h, h2, result) ==
    /\ Len(h2.results) = Len(h.results) + 1
    /\ Last(h2.results) = [id |-> MessageId(h), result |-> result]

\* C12: a failure of the memory subsystem never makes processMessage fail.
\* When buildContextForDraft or getVoiceGuidance settles, however, the draft
\* is generated next; when storeConversation settles, however, processMessage
\* returns the draft result; without a memory client these calls are not
\* made and the draft result is returned after the interaction is logged.
\* processMessage throws only when a mail or a CRM call has failed.
C12_MemoryFailureKeepsDraft ==
    [][\A n \in DOMAIN handlers :
         LET h == handlers[n]
             h2 == handlers'[n]
         IN h2 # h =>
              /\ h.pm \in {"context", "guidance"} =>
                    /\ h2.pc = "processing" /\ h2.k = h.k /\ h2.results = h.results
                    /\ h2.pm \in {"guidance", "draftReply"}
              /\ h.pm = "draftReply" =>
                    /\ h2.pm = "createReplyDraft" /\ h2.k = h.k /\ h2.results = h.results
                    /\ h2.draftReply # ""
              /\ h.pm = "storeConversation" => Gave(h, h2, "draft")
              /\ h.pm \in MemoryCalls => memoryClient
              /\ (h.pm = "contact" /\ ~memoryClient /\ failures' = failures) =>
                    h2.pm = "draftReply"
              /\ (h.pm = "createInteraction" /\ ~memoryClient /\ failures' = failures) =>
                    Gave(h, h2, "draft")
              /\ (Len(h2.results) > Len(h.results) /\ Last(h2.results).result = "thrown") =>
                    h.pm \in MailAndCrmCalls /\ failures' = failures + 1]_vars

\* the context retrieval failed and the draft result was returned all the same
C12_Witness ==
    \E n \in DOMAIN handlers :
        /\ "Error retrieving memory context" \in handlers[n].errors
        /\ handlers[n].results # <<>>
        /\ Last(handlers[n].results).result = "draft"
        /\ \E k \in DOMAIN mailWrites :
             mailWrites[k].messageId = Last(handlers[n].results).id

\* C13: learnFromEdit never throws to its caller: when embedding or storing a
\* learned pattern fails, the error is logged and the call completes normally.
C13_LearnNeverThrows == lePc # "thrown"

\* C14: learning from an edit whose edited text equals the original finds no
\* added and no removed words, extracts no pattern, sends nothing and leaves
\* the voice namespace as it was.
C14_EqualTextsLearnNothing ==
    (lePc # "idle" /\ draftText = sentText) =>
        /\ Added(draftText, sentText) = <<>>
        /\ Removed(draftText, sentText) = <<>>
        /\ lePatterns = <<>>
        /\ lePc = "returned"
        /\ voice = {}
        /\ inflight = {}
C14_Witness == lePc = "returned" /\ draftText = sentText /\ Len(draftText) = MaxWords

\* C15: a learning event that has returned has persisted exactly one
\* VoicePattern when words were added and none when no word was added, and
\* every record it persisted has source edit, frequency 1 and the draft's
\* identifier as context.
C15_OnePatternPerEvent ==
    lePc = "returned" =>
        /\ Cardinality(voice) = (IF Added(draftText, sentText) # <<>> THEN 1 ELSE 0)
        /\ \A r \in voice :
             r.source = "edit" /\ r.frequency = 1 /\ r.context = DraftContext

\* C16: every successful storeVoicePattern call adds a record and overwrites
\* none: the step that returns from the upsert leaves every earlier record in
\* place and the namespace one record larger.
C16_AppendOnly ==
    [][(svpPc = "upsert" /\ svpPc' = "returned") =>
           /\ voice \subseteq voice'
           /\ Cardinality(voice') = Cardinality(voice) + 1]_vars

\* C17: ingestion is idempotent: each document is stored under one id, also
\* after the same corpus was ingested a second time.
C17_OneIdPerDocument ==
    \A r1, r2 \in voice : r1.pattern = r2.pattern => r1.id = r2.id

\* C18: at most one processUnreadEmails run is active at any time: the busy
\* flag is set exactly while a run is active, and a cron tick or a
\* POST /process-emails that arrived during a run started none (the manual
\* trigger was answered 409), for every interleaving of ticks and requests.
C18_OneRunAtATime ==
    /\ Cardinality(Running) <= 1
    /\ isProcessing <=> Running # {}
    /\ \A n \in DOMAIN handlers :
         /\ handlers[n].pc = "skipped" =>
              /\ handlers[n].results = <<>>
              /\ handlers[n].status = (IF handlers[n].kind = "manual" THEN 409 ELSE 0)
         /\ handlers[n].status = 409 => handlers[n].pc = "skipped"
C18_Witness ==
    \E n \in DOMAIN handlers, m \in Running :
        /\ handlers[n].pc = "skipped"
        /\ handlers[n].kind = "manual"
        /\ handlers[n].status = 409
        /\ handlers[m].pc = "processing"

\* C19: no inbound item is processed twice: over any sequence of scheduled
\* and manual runs a reply draft is created at most once for a message id.
C19_NoItemProcessedTwice ==
    \A a, b \in DOMAIN mailWrites :
        (/\ mailWrites[a].call = "createReply"
         /\ mailWrites[b].call = "createReply"
         /\ mailWrites[a].messageId = mailWrites[b].messageId) => a = b

\* C20: the should-respond cache is bounded by its ceiling: after any
\* sequence of shouldAmyReplyToEmail calls it holds at most 1000 entries.
C20_CacheBounded == Len(aiFilterCache) <= cacheCeiling

\* C21: the agent never sends mail on its own: every mail-side write of a
\* run is the creation of a reply draft for a fetched message, and sendMail
\* is never invoked.
C21_NoAutoSend ==
    \A k \in DOMAIN mailWrites :
        /\ mailWrites[k].call = "createReply"
        /\ mailWrites[k].call # "sendMail"
        /\ mailWrites[k].messageId \in unread
C21_Witness ==
    /\ mailWrites # <<>>
    /\ \E n \in DOMAIN handlers :
         /\ handlers[n].pc = "done"
         /\ \E k \in DOMAIN handlers[n].results : handlers[n].results[k].result = "draft"

\* C22: for every stored record the vector is the embedding of exactly the
\* text stored with the record: the truncated body of a conversation, the
\* pattern of a voice record.
C22_EmbeddingOfStoredText ==
    /\ \A r \in conversations : r.values = Embedding(r.body)
    /\ \A r \in voice : r.values = Embedding(r.pattern)

\* the last call that returned for an email id
LastStored(emailId) ==
    LET ks == {k \in DOMAIN scDone : scDone[k].emailId = emailId}
    IN scDone[CHOOSE k \in ks : \A j \in ks : j <= k]

\* C23: storing a conversation is idempotent by id: however often
\* storeConversation was called with an emailId, the conversations namespace
\* holds exactly one record with that id, with the vector and the metadata of
\* the latest call that returned.
C23_OneRecordPerEmailId ==
    /\ \A r1, r2 \in conversations : r1.id = r2.id => r1 = r2
    /\ {r.id : r \in conversations} = {scDone[k].emailId : k \in DOMAIN scDone}
    /\ \A r \in conversations :
         /\ r.values = Embedding(SearchText(r.id, LastStored(r.id).body))
         /\ r.body = Prefix(LastStored(r.id).body, 1000)
         /\ r.from = LastStored(r.id).from
C23_Witness ==
    /\ scPc = "returned"
    /\ Len(scDone) = 2
    /\ scDone[1].emailId = scDone[2].emailId
    /\ scDone[1].body # scDone[2].body
    /\ Cardinality(conversations) = 1

\* the words of a mail, and the two mails of the scenario
WordsOf(mail) == Len(mail.greeting) + Len(mail.body) + Len(mail.closing)
ScenarioGreeting == <<"Hi", "John,">>
ScenarioClosing == <<"Best,", "Amy">>
ScenarioOriginal ==
    CHOOSE mail \in Mails :
        /\ mail.greeting = ScenarioGreeting /\ mail.closing = ScenarioClosing
        /\ mail.body[1] = "Thanks" /\ mail.layout = "one line"
ScenarioEdited ==
    CHOOSE mail \in Mails :
        /\ mail.greeting = ScenarioGreeting /\ mail.closing = ScenarioClosing
        /\ mail.body[1] = "Happy" /\ mail.layout = "one line"

\* C24: analyzeStyleChanges emits no style change when the edit keeps the
\* greeting, the closing and the layout and the edited word count is within
\* 0.8 to 1.2 times the original's; so for the scenario's mails of 16 and 14
\* words, written on one line.
C24_NoFlagWhenKept ==
    (/\ styPc = "done"
     /\ original.layout = edited.layout
     /\ original.greeting = edited.greeting
     /\ original.closing = edited.closing
     /\ 10 * WordsOf(edited) >= 8 * WordsOf(original)
     /\ 10 * WordsOf(edited) <= 12 * WordsOf(original)) => styleChanges = <<>>

InUnitInterval(score) == 0 <= score.num /\ score.num <= score.den /\ score.den > 0

\* C25: every tone slider of a built profile is in [0, 1], for every corpus,
\* also one in which every keyword of a list occurs many times.
C25_SlidersInUnitInterval ==
    tonePc = "done" =>
        /\ InUnitInterval(toneSliders.warmth)
        /\ InUnitInterval(toneSliders.directness)
        /\ InUnitInterval(toneSliders.formality)
C25_Witness ==
    /\ tonePc = "done"
    /\ \A k \in DOMAIN warmthWords : allText[warmthWords[k]] = MaxOccurrences
    /\ toneSliders.warmth = Fraction(Len(warmthWords), Len(warmthWords))

C27_FailedFilterNotCached ==
    [][\A n \in DOMAIN handlers :
          LET h == handlers[n]
              h2 == handlers'[n]
              key == CacheKey(Message(h))
          IN (h2 # h /\ h.pc = "processing") =>
              /\ (h.pm = "aiFilter" /\ failures' # failures) =>
                    /\ h2 = FindOrCreateContact(
                              [h EXCEPT !.errors = @ \cup {"Error in AI-based email filtering"}])
                    /\ aiFilterCache' = aiFilterCache
                    /\ ~CacheHas(aiFilterCache', key)
              /\ (/\ h.pm = "getMessage" /\ failures' = failures
                  /\ passesRuleBasedFilter(Message(h))) =>
                    /\ aiFilterCache' = aiFilterCache
                    /\ IF CacheHas(aiFilterCache, key)
                         THEN IF CacheGet(aiFilterCache, key)
                                THEN h2 = FindOrCreateContact(h)
                                ELSE Gave(h, h2, "null")
                         ELSE h2.pm = "aiFilter" /\ h2.results = h.results]_vars
\* the AI call failed for a message in one run, and a later run asks the AI
\* about the same message
C27_Witness ==
    \E n, m \in DOMAIN handlers :
        /\ n < m
        /\ "Error in AI-based email filtering" \in handlers[n].errors
        /\ handlers[m].pc = "processing" /\ handlers[m].pm = "aiFilter"
        /\ \E k \in DOMAIN handlers[n].results :
              handlers[n].results[k].id = MessageId(handlers[m])

\* C28: the busy flag is released at the end of every run: a run that ends,
\* normally, after a failed fetch or after every message threw, leaves
\* isProcessing false, and a cron tick or request that arrives while no run
\* is active starts a new run and sets the flag.
C28_FlagReleasedAfterEveryRun ==
    [][/\ \A n \in DOMAIN handlers :
            (n \in Running /\ handlers'[n].pc = "done") => ~isProcessing'
       /\ (Len(handlers') = Len(handlers) + 1 /\ Running = {}) =>
            /\ handlers'[Len(handlers')].pc = "fetching"
            /\ isProcessing']_vars
C28_Witness ==
    \E n, m \in DOMAIN handlers :
        /\ n < m
        /\ handlers[n].pc = "done"
        /\ "Error processing unread emails" \in handlers[n].errors
        /\ handlers[m].kind = "cron"
        /\ handlers[m].pc = "fetching"
        /\ isProcessing

\* C29: a failure on one message is isolated within a run: the messages
\* passed to processMessage are the fetched ones in the fetched order,
\* whatever each gave; the run is at the message after the last result, and
\* a finished run whose fetch resolved has a result for every message.
C29_FailureIsolated ==
    \A n \in DOMAIN handlers :
        LET h == handlers[n] IN
        /\ Len(h.results) <= Len(h.unreadMessages)
        /\ \A k \in DOMAIN h.results : h.results[k].id = h.unreadMessages[k]
        /\ h.pc = "processing" => h.k = Len(h.results) + 1
        /\ h.pc = "done" => Len(h.results) = Len(h.unreadMessages)
C29_Witness ==
    \E n \in DOMAIN handlers :
        LET h == handlers[n] IN
        /\ h.pc = "done"
        /\ \E a, b \in DOMAIN h.results :
             /\ a < b
             /\ h.results[a].result = "thrown"
             /\ h.results[b].id = h.unreadMessages[b]
             /\ h.results[b].result = "draft"

\* C30: the Outlook client reuses its cached access token only while the
\* current time is more than one minute before that token's real expiry:
\* whenever getAccessToken returned the cached token, the call was made
\* before expiresOn minus one minute.
C30_ReusedOnlyBeforeExpiry ==
    (tokResult.reused /\ expiresOn # NoDate) =>
        tokResult.at < expiresOn[1] - oneMinuteBuffer

====
